---- MODULE Spec2Model ----
(***************************************************************************)
(* A model of the mixing/looping engine of roland-s1-ambient:              *)
(* src/src/audio_engine.py, class AudioEngine, and the keys of              *)
(* src/src/midi_handler.py that drive its setters.                         *)
(*                                                                         *)
(* Numbers.  Python floats are modelled in fixed point:                    *)
(*   crossfader, delay_amount, reverb_amount : thousandths (FaderOne = 1.0)*)
(*   ambient_volume, rhythm_volume           : millionths (GainOne = 1.0)  *)
(*   samples of a source or of a buffer      : hundredths (SampleOne = 1.0)*)
(*   samples of a mixed block                : SampleOne * GainOne = 1.0   *)
(* A stereo frame is modelled by one sample: the code treats both channels *)
(* of a frame alike (every operation is row-wise).                         *)
(* None is the empty tuple, a present value x is the one-element tuple <<x>>*)
(***************************************************************************)
EXTENDS Integers, Sequences, FiniteSets, TLC

\* ------------------------------------------------------------------ bounds

\* AudioEngine(sample_rate=...), a constructor argument (frames per second).
sample_rate == 2

\* self.target_buffer_seconds, scaled down from 150 so that a buffer is a few frames.
target_buffer_seconds == 1

\* The largest block size (frames) the audio device asks the callback for.
MaxFrames == 4

\* The largest block size (frames) a CrossfadeAudioEngine is built with.
MaxBufferSize == 3

\* ------------------------------------------------------------------ scales

FaderOne == 10 * 100

GainOne == FaderOne * FaderOne

SampleOne == 10 * 10

OutOne == SampleOne * GainOne

None == << >>

Some(x) == << x >>

Min(a, b) == IF a <= b THEN a ELSE b

Max(a, b) == IF a >= b THEN a ELSE b

Slots == {"ambient", "rhythm"}

\* ------------------------------------------------------- numpy/python helpers

\* seq[a:] for a >= 0
From(seq, a) == SubSeq(seq, a + 1, Len(seq))

\* seq[:b] for b >= 0
Upto(seq, b) == SubSeq(seq, 1, Min(b, Len(seq)))

\* seq[-c:] for c > 0
LastN(seq, c) == SubSeq(seq, Max(Len(seq) - c, 0) + 1, Len(seq))

\* seq[:-c] for c > 0
DropLastN(seq, c) == SubSeq(seq, 1, Max(Len(seq) - c, 0))

\* Whether numpy broadcasts row counts m and n against each other.
Broadcastable(m, n) == m = n \/ m = 1 \/ n = 1

\* Row count of the broadcast of m rows against n rows.
BroadcastLen(m, n) == IF m = 1 THEN n ELSE IF n = 1 THEN m ELSE m

\* Row i (1-based) of seq broadcast to a larger row count.
Row(seq, i) == IF Len(seq) = 1 THEN seq[1] ELSE seq[i]

\* int(np.ceil(a / b)) for a >= 0, b > 0
CeilDiv(a, b) == (a + b - 1) \div b

\* The r in lo..hi with r * r <= n < (r + 1) * (r + 1), by bisection.
RECURSIVE IsqrtIn(_, _, _)
IsqrtIn(n, lo, hi) ==
    IF lo = hi THEN lo
    ELSE LET mid == (lo + hi + 1) \div 2
         IN  IF mid * mid <= n THEN IsqrtIn(n, mid, hi) ELSE IsqrtIn(n, lo, mid - 1)

\* floor(sqrt(n)) for 0 <= n <= GainOne
Isqrt(n) == IsqrtIn(n, 0, FaderOne)

\* x ** 1.5 for x in thousandths, result in millionths (rounded down; it is 0
\* only for x = 0, as in floating point, and exact at 0, 10, 40, 90, ..., 1000).
Pow15(x) == x * Isqrt(x * FaderOne)

\* A clamp that forgets the lower end: min(1.0, amount)
Clamp01_upper_only(amount) == Min(FaderOne, amount)

\* max(0.0, min(1.0, amount))
Clamp01(amount) == Max(0, Min(FaderOne, amount))

\* ------------------------------------------------------------ the renderer

\* np.linspace(0, 1, c)[i] * x, i 0-based, for c > 0 (linspace(0, 1, 1) = [0.])
FadeIn(x, i, c) == IF c = 1 THEN 0 ELSE (x * i) \div (c - 1)

\* np.linspace(1, 0, c)[i] * x, i 0-based, for c > 0 (linspace(1, 0, 1) = [1.])
FadeOut(x, i, c) == IF c = 1 THEN x ELSE (x * (c - 1 - i)) \div (c - 1)

\* prev_end * fade_out, rows broadcast as numpy does; None when the shapes clash.
FadedEnd(prev_end, c) ==
    IF ~Broadcastable(Len(prev_end), c) THEN None
    ELSE Some([i \in 1..BroadcastLen(Len(prev_end), c) |->
                 FadeOut(Row(prev_end, i), IF c = 1 THEN 0 ELSE i - 1, c)])

\* current_start * fade_in, rows broadcast as numpy does; None when the shapes clash.
FadedStart(current_start, c) ==
    IF ~Broadcastable(Len(current_start), c) THEN None
    ELSE Some([i \in 1..BroadcastLen(Len(current_start), c) |->
                 FadeIn(Row(current_start, i), IF c = 1 THEN 0 ELSE i - 1, c)])

\* prev_end_faded + current_start_faded; None when the shapes clash.
CrossfadedSection(a, b) ==
    IF ~Broadcastable(Len(a), Len(b)) THEN None
    ELSE Some([i \in 1..BroadcastLen(Len(a), Len(b)) |-> Row(a, i) + Row(b, i)])

\* One pass of the loop body for i >= 1: buffer_parts after the pass, or None
\* when numpy raises.
RenderStep(buffer_parts, audio_data, crossfade_samples) ==
    IF crossfade_samples > 0
    THEN LET last == buffer_parts[Len(buffer_parts)]
             prev_end_faded == FadedEnd(LastN(last, crossfade_samples), crossfade_samples)
             current_start_faded ==
                 FadedStart(Upto(audio_data, crossfade_samples), crossfade_samples)
         IN  IF prev_end_faded = None \/ current_start_faded = None THEN None
             ELSE LET section == CrossfadedSection(prev_end_faded[1], current_start_faded[1])
                  IN  IF section = None THEN None
                      ELSE Some(Append(
                             [buffer_parts EXCEPT ![Len(buffer_parts)] =
                                 DropLastN(last, crossfade_samples) \o section[1]],
                             From(audio_data, crossfade_samples)))
    ELSE Some(Append(buffer_parts, audio_data))

\* for i in range(loops_needed), from pass i on: the final buffer_parts or None.
RECURSIVE RenderLoops(_, _, _, _, _)
RenderLoops(buffer_parts, audio_data, crossfade_samples, i, loops_needed) ==
    IF i >= loops_needed THEN Some(buffer_parts)
    ELSE IF i = 0
         THEN RenderLoops(<<audio_data>>, audio_data, crossfade_samples, 1, loops_needed)
         ELSE LET r == RenderStep(buffer_parts, audio_data, crossfade_samples)
              IN  IF r = None THEN None
                  ELSE RenderLoops(r[1], audio_data, crossfade_samples, i + 1, loops_needed)

\* np.vstack(buffer_parts)
RECURSIVE Vstack(_)
Vstack(parts) == IF parts = << >> THEN << >> ELSE Head(parts) \o Vstack(Tail(parts))

\* np.tile(buffer, (repeats, 1))
RECURSIVE Tile(_, _)
Tile(buffer, repeats) == IF repeats = 0 THEN << >> ELSE buffer \o Tile(buffer, repeats - 1)

\* int((crossfade_ms / 1000.0) * self.sample_rate)
CrossfadeSamples(crossfade_ms) == (crossfade_ms * sample_rate) \div 1000

target_samples == target_buffer_seconds * sample_rate

\* A trim that never extends a buffer that came out too short.
TrimOrExtendTo_trims_only(full_buffer, target) ==
    IF Len(full_buffer) > target THEN Upto(full_buffer, target) ELSE full_buffer

\* Trim or extend to exactly target frames (lines 411-417).
TrimOrExtendTo(full_buffer, target) ==
    IF Len(full_buffer) > target THEN Upto(full_buffer, target)
    ELSE IF Len(full_buffer) < target
         THEN Upto(Tile(full_buffer, CeilDiv(target, Len(full_buffer))), target)
         ELSE full_buffer

\* Trim or extend to exactly target_samples.
TrimOrExtend(full_buffer) == TrimOrExtendTo(full_buffer, target_samples)

\* loops_needed = int(np.ceil(target_samples / loop_length))
LoopsNeeded(target, loop_length) == CeilDiv(target, loop_length)

\* full_buffer = np.vstack(buffer_parts) after loops passes of the loop, or
\* None when numpy raises on the way.
FullBuffer(audio_data, crossfade_samples, loops) ==
    LET parts == RenderLoops(<< >>, audio_data, crossfade_samples, 0, loops)
    IN  IF parts = None THEN None ELSE Some(Vstack(parts[1]))

\* _pre_render_buffer with self.target_buffer_seconds * self.sample_rate = target:
\* whether it raises (ZeroDivisionError for an empty source, ValueError when
\* numpy cannot broadcast), loops_needed, full_buffer before the trim and the
\* buffer it returns.
PreRender(audio_data, crossfade_samples, target) ==
    IF Len(audio_data) = 0
    THEN [raised |-> TRUE, loops |-> 0, full_buffer |-> None, buffer |-> None]
    ELSE LET loops == LoopsNeeded(target, Len(audio_data))
             full == FullBuffer(audio_data, crossfade_samples, loops)
         IN  IF full = None
             THEN [raised |-> TRUE, loops |-> loops, full_buffer |-> None, buffer |-> None]
             ELSE [raised |-> FALSE, loops |-> loops, full_buffer |-> full,
                   buffer |-> Some(TrimOrExtendTo(full[1], target))]

\* _pre_render_buffer in the engine: the rendered buffer, or None when it raises.
pre_render_buffer(audio_data, crossfade_ms) ==
    PreRender(audio_data, CrossfadeSamples(crossfade_ms), target_samples).buffer

\* ------------------------------------------------------------- environment

\* file_info tuples (filename, crossfade_ms, filepath) the file manager hands over.
PadFile == <<"a_pad.wav", 250, "samples/a_pad.wav">>

DroneFile == <<"a_drone.wav", 500, "samples/a_drone.wav">>

EmptyFile == <<"empty.wav", 750, "samples/empty.wav">>

MissingFile == <<"missing.wav", 0, "samples/missing.wav">>

FileInfos == {PadFile, DroneFile, EmptyFile, MissingFile}

\* sf.read(filepath): the decoded samples, or None when it raises.
FileSystem(filepath) ==
    CASE filepath = PadFile[3] -> Some(<<SampleOne, -(SampleOne \div 2)>>)
      [] filepath = DroneFile[3] -> Some(<<-SampleOne, SampleOne, SampleOne \div 5>>)
      [] filepath = EmptyFile[3] -> Some(<< >>)
      [] OTHER -> None

\* What a pedalboard effect does to a block: it returns it unchanged, returns it
\* amplified (delay feedback and reverb can add up past full scale), or raises.
\* Both effects are linear filters that start silent; their tails are not modelled.
FxOutcomes == {"same", "loud", "raise"}

\* ------------------------------------------------------------------- state

VARIABLES
    current_buffer,           \* current_ambient_buffer, current_rhythm_buffer
    current_buffer_position,  \* current_ambient_buffer_position, ..._rhythm_...
    next_buffer,              \* next_ambient_buffer, next_rhythm_buffer
    next_buffer_position,     \* next_ambient_buffer_position, ..._rhythm_...
    current_file,             \* current_ambient_file, current_rhythm_file
    next_file,                \* next_ambient_file, next_rhythm_file
    crossfade_ms,             \* ambient_crossfade_ms, rhythm_crossfade_ms
    data,                     \* ambient_data, rhythm_data
    volume,                   \* ambient_volume, rhythm_volume
    crossfader,
    delay_amount,
    reverb_amount,
    delay,                    \* the pedalboard.Delay parameters
    reverb,                   \* the pedalboard.Reverb parameters
    is_playing,
    stream,                   \* "none", "created", "running" or "closed"
    outdata,                  \* the block the last callback wrote for the device
    callback_raised,          \* whether the last callback ended in an exception
    asked_frames,             \* the frames argument of the last callback
    printed,                  \* what the last handler printed, <<tag, slot>> each
    last_call,                \* the handler that ran last
    cb,                       \* the locals of a callback in progress
    render,                   \* the arguments and locals of a _pre_render_buffer call
    crossfade_engine,         \* the attributes of a CrossfadeAudioEngine
    controller,               \* the locals of the effects controller's main()
    load,                     \* the locals of a preload in progress
    tester,                   \* the attributes of a PreRenderCrossfade tester
    autoload                  \* the state of FixedAutoLoadController.run

slot_vars == <<current_buffer, current_buffer_position, next_buffer, next_buffer_position,
               current_file, next_file, crossfade_ms, data>>

fx_vars == <<delay_amount, reverb_amount, delay, reverb>>

out_vars == <<outdata, callback_raised, asked_frames>>

\* A handler other than the callback hands no block to the device: outdata,
\* callback_raised and asked_frames describe the callback that has just returned,
\* and nothing else.
NoBlock == outdata' = << >> /\ callback_raised' = FALSE /\ asked_frames' = 0

vars == <<slot_vars, volume, crossfader, fx_vars, is_playing, stream, out_vars,
          printed, last_call, cb, render, crossfade_engine, controller, load, tester,
          autoload>>

\* No callback in progress.
CbIdle == [pc |-> "idle", slot |-> "", frames |-> 0, fx |-> <<"same", "same">>,
           buffer |-> None, position |-> 0, chunk |-> << >>, position2 |-> 0,
           output |-> << >>]

\* No _pre_render_buffer call under way.
RenderNone == [pc |-> "none", audio_data |-> << >>, crossfade_samples |-> 0, target |-> 0,
               loops |-> 0, full_buffer |-> None, buffer |-> None]

\* CrossfadeAudioEngine.__init__(sample_rate, buffer_size): the attributes it sets.
CrossfadeAudioEngine(buffer_size) ==
    [buffer_size |-> buffer_size,
     data |-> [s \in Slots |-> None],
     position |-> [s \in Slots |-> 0],
     crossfade_ms |-> [s \in Slots |-> IF s = "ambient" THEN 2000 ELSE 100],
     volume |-> [s \in Slots |-> GainOne \div 2],
     is_playing |-> FALSE,
     stream |-> "none"]

\* The controller before its main loop: prev_crossfader = 0.0, and
\* MidiHandler.running = True.
ControllerOff == [pc |-> "off", prev_crossfader |-> 0, reloading |-> "", running |-> TRUE]

\* No preload in progress.
LoadIdle == [pc |-> "idle", track_type |-> "", file_info |-> << >>, buffer |-> None]

\* PreRenderCrossfade.__init__: the attributes it sets. pc is "idle" unless
\* adjust_crossfade is under way ("first", "loop", "reset") or an exception has
\* ended run() ("crashed"); loop is the pass pre_render_buffer is at; outdata
\* and frames_to_read are those of the last audio callback, callback_failed
\* whether it raised.
PreRenderCrossfade ==
    [audio_data |-> None, total_samples |-> 0, crossfade_ms |-> 1000,
     crossfade_samples |-> 0, buffer |-> None, buffer_position |-> 0,
     is_playing |-> FALSE, continuous_mode |-> FALSE, play_once_mode |-> FALSE,
     loops_completed |-> 0, pc |-> "idle", loop |-> 0, outdata |-> << >>,
     frames_to_read |-> 0, callback_failed |-> FALSE]

\* FixedAutoLoadController as run() starts: at_zero_type = None ("") and
\* zero_start_time = None, both flags False. elapsed is the time since
\* zero_start_time in passes of the loop, play_counts the loads made per slot
\* by _load_new_ambient and _load_new_rhythm, and visit_loads (a history of
\* the run) the loads made since at_zero_type last changed.
FixedAutoLoadController ==
    [at_zero_type |-> "", elapsed |-> 0, ambient_at_zero |-> FALSE,
     rhythm_at_zero |-> FALSE, play_counts |-> [s \in Slots |-> 0],
     visit_loads |-> 0]

\* Everything outside the AudioEngine, as constructed.
OthersInit ==
    /\ controller = ControllerOff
    /\ load = LoadIdle
    /\ tester = PreRenderCrossfade
    /\ autoload = FixedAutoLoadController

\* AudioEngine.__init__: the attributes it sets.
EngineInit ==
    /\ current_buffer = [s \in Slots |-> None]
    /\ current_buffer_position = [s \in Slots |-> 0]
    /\ next_buffer = [s \in Slots |-> None]
    /\ next_buffer_position = [s \in Slots |-> 0]
    /\ current_file = [s \in Slots |-> None]
    /\ next_file = [s \in Slots |-> None]
    /\ crossfade_ms = [s \in Slots |-> 0]
    /\ data = [s \in Slots |-> None]
    /\ volume = [s \in Slots |-> IF s = "ambient" THEN GainOne ELSE 0]
    /\ crossfader = 0
    /\ delay_amount = 0
    /\ reverb_amount = 0
    /\ delay = [delay_seconds |-> 200, feedback |-> 300, mix |-> 0]
    /\ reverb = [room_size |-> 700, damping |-> 500, wet_level |-> 0, dry_level |-> FaderOne]
    /\ is_playing = FALSE
    /\ stream = "none"
    /\ outdata = << >>
    /\ callback_raised = FALSE
    /\ asked_frames = 0
    /\ printed = << >>
    /\ last_call = "__init__"
    /\ cb = CbIdle

\* AudioEngine.__init__
Init ==
    /\ EngineInit
    /\ render = RenderNone
    /\ crossfade_engine = CrossfadeAudioEngine(MaxBufferSize)
    /\ OthersInit

\* ----------------------------------------------------- crossfader and switching

\* A linear crossfade instead of the x ** 1.5 curve.
VolumesFromCrossfader_linear(c) ==
    [s \in Slots |-> IF s = "ambient" THEN (FaderOne - c) * FaderOne ELSE c * FaderOne]

\* _update_volumes_from_crossfader: the two volumes for a crossfader position.
VolumesFromCrossfader(c) ==
    [s \in Slots |-> IF s = "ambient" THEN Pow15(FaderOne - c) ELSE Pow15(c)]

\* A switching test that forgets the volume.
ShouldSwitch_ignores_volume(vol, next) == next # None

\* The test of _check_buffer_switching for one slot.
ShouldSwitch(vol, next) == vol = 0 /\ next # None

\* A switch that forgets to take over the pending buffer's cursor.
switch_to_next_keeps_cursor(sw) ==
    /\ current_buffer' =
         [s \in Slots |-> IF s \in sw THEN next_buffer[s] ELSE current_buffer[s]]
    /\ current_file' = [s \in Slots |-> IF s \in sw THEN next_file[s] ELSE current_file[s]]
    /\ crossfade_ms' =
         [s \in Slots |-> IF s \in sw
                          THEN (IF next_file[s] # None THEN next_file[s][1][2] ELSE 0)
                          ELSE crossfade_ms[s]]
    /\ next_buffer' = [s \in Slots |-> IF s \in sw THEN None ELSE next_buffer[s]]
    /\ next_file' = [s \in Slots |-> IF s \in sw THEN None ELSE next_file[s]]
    /\ printed' = (IF "ambient" \in sw THEN << <<"switching", "ambient">> >> ELSE << >>)
                  \o (IF "rhythm" \in sw THEN << <<"switching", "rhythm">> >> ELSE << >>)
    /\ UNCHANGED <<current_buffer_position, next_buffer_position, data>>

\* A switch that swaps the current and the pending buffer instead of clearing
\* the pending one.
switch_to_next_swaps(sw) ==
    /\ current_buffer' =
         [s \in Slots |-> IF s \in sw THEN next_buffer[s] ELSE current_buffer[s]]
    /\ current_buffer_position' =
         [s \in Slots |-> IF s \in sw THEN next_buffer_position[s]
                          ELSE current_buffer_position[s]]
    /\ current_file' = [s \in Slots |-> IF s \in sw THEN next_file[s] ELSE current_file[s]]
    /\ crossfade_ms' =
         [s \in Slots |-> IF s \in sw
                          THEN (IF next_file[s] # None THEN next_file[s][1][2] ELSE 0)
                          ELSE crossfade_ms[s]]
    /\ next_buffer' = [s \in Slots |-> IF s \in sw THEN current_buffer[s] ELSE next_buffer[s]]
    /\ next_file' = [s \in Slots |-> IF s \in sw THEN current_file[s] ELSE next_file[s]]
    /\ printed' = (IF "ambient" \in sw THEN << <<"switching", "ambient">> >> ELSE << >>)
                  \o (IF "rhythm" \in sw THEN << <<"switching", "rhythm">> >> ELSE << >>)
    /\ UNCHANGED <<next_buffer_position, data>>

\* _switch_to_next_ambient / _switch_to_next_rhythm for the slots in sw.
switch_to_next(sw) ==
    /\ current_buffer' =
         [s \in Slots |-> IF s \in sw THEN next_buffer[s] ELSE current_buffer[s]]
    /\ current_buffer_position' =
         [s \in Slots |-> IF s \in sw THEN next_buffer_position[s]
                          ELSE current_buffer_position[s]]
    /\ current_file' = [s \in Slots |-> IF s \in sw THEN next_file[s] ELSE current_file[s]]
    /\ crossfade_ms' =
         [s \in Slots |-> IF s \in sw
                          THEN (IF next_file[s] # None THEN next_file[s][1][2] ELSE 0)
                          ELSE crossfade_ms[s]]
    /\ next_buffer' = [s \in Slots |-> IF s \in sw THEN None ELSE next_buffer[s]]
    /\ next_file' = [s \in Slots |-> IF s \in sw THEN None ELSE next_file[s]]
    /\ printed' = (IF "ambient" \in sw THEN << <<"switching", "ambient">> >> ELSE << >>)
                  \o (IF "rhythm" \in sw THEN << <<"switching", "rhythm">> >> ELSE << >>)
    /\ UNCHANGED <<next_buffer_position, data>>

\* _check_buffer_switching, run with the volumes vol just stored.
check_buffer_switching(vol) ==
    switch_to_next({s \in Slots : ShouldSwitch(vol[s], next_buffer[s])})

\* set_crossfader(amount)
set_crossfader(amount) ==
    /\ crossfader' = Clamp01(amount)
    /\ volume' = VolumesFromCrossfader(crossfader')
    /\ check_buffer_switching(volume')
    /\ NoBlock
    /\ last_call' = "set_crossfader"
    /\ UNCHANGED <<load, tester, autoload, crossfade_engine, controller, render, fx_vars, is_playing, stream, cb>>

\* ------------------------------------------------------------- effect knobs

\* Band tests written with < instead of <=.
DelayParams_strict_bands(old, amount) ==
    IF amount = 0 THEN [old EXCEPT !.mix = 0]
    ELSE IF amount * 10 < 3 * FaderOne
         THEN [delay_seconds |-> 200, feedback |-> 300, mix |-> amount]
         ELSE IF amount * 10 < 7 * FaderOne
              THEN [delay_seconds |-> 400, feedback |-> 500, mix |-> amount]
              ELSE [delay_seconds |-> 800, feedback |-> 700, mix |-> amount]

\* _update_delay_params: the Delay parameters after the knob is set to amount.
DelayParams(old, amount) ==
    IF amount = 0 THEN [old EXCEPT !.mix = 0]
    ELSE IF amount * 10 <= 3 * FaderOne
         THEN [delay_seconds |-> 200, feedback |-> 300, mix |-> amount]
         ELSE IF amount * 10 <= 7 * FaderOne
              THEN [delay_seconds |-> 400, feedback |-> 500, mix |-> amount]
              ELSE [delay_seconds |-> 800, feedback |-> 700, mix |-> amount]

\* set_delay_amount(amount)
set_delay_amount(amount) ==
    /\ delay_amount' = Clamp01(amount)
    /\ delay' = DelayParams(delay, delay_amount')
    /\ printed' = << >>
    /\ NoBlock
    /\ last_call' = "set_delay_amount"
    /\ UNCHANGED <<load, tester, autoload, crossfade_engine, controller, render, slot_vars, volume, crossfader, reverb_amount, reverb, is_playing,
                   stream, cb>>

\* An update that sets the wet level and forgets the dry level.
ReverbParams_keeps_dry(old, amount) == [old EXCEPT !.wet_level = amount]

\* _update_reverb_params
ReverbParams(old, amount) ==
    [old EXCEPT !.wet_level = amount, !.dry_level = FaderOne - amount]

\* set_reverb_amount(amount)
set_reverb_amount(amount) ==
    /\ reverb_amount' = Clamp01(amount)
    /\ reverb' = ReverbParams(reverb, reverb_amount')
    /\ printed' = << >>
    /\ NoBlock
    /\ last_call' = "set_reverb_amount"
    /\ UNCHANGED <<load, tester, autoload, crossfade_engine, controller, render, slot_vars, volume, crossfader, delay_amount, delay, is_playing,
                   stream, cb>>

\* ------------------------------------------------------------ other callers

\* engine.set_volumes(ambient_vol, rhythm_vol), as src/main.py and the other
\* main scripts call it on an AudioEngine: the class defines no set_volumes, so
\* the attribute lookup raises AttributeError and the engine stays as it was.
set_volumes(ambient_vol, rhythm_vol) ==
    /\ printed' = << >>
    /\ NoBlock
    /\ last_call' = "set_volumes"
    /\ UNCHANGED <<load, tester, autoload, crossfade_engine, controller, render, slot_vars, volume, crossfader, fx_vars, is_playing, stream, cb>>

\* MidiHandler.crossfade_step, 0.05
crossfade_step == FaderOne \div 20

\* MidiHandler.effect_step, 0.1
effect_step == FaderOne \div 10

\* The keys MidiHandler._handle_key turns into setter calls.
Keys == {"q", "a", "w", "s", "e", "d"}

\* MidiHandler._handle_key(key), called by _input_loop while self.running: the
\* setter call it makes for a key of Keys, and self.running = False for ESC.
handle_key(key) ==
    /\ controller.running
    /\ CASE key = "q" -> set_crossfader(Max(0, crossfader - crossfade_step))
         [] key = "a" -> set_crossfader(Min(FaderOne, crossfader + crossfade_step))
         [] key = "w" -> set_delay_amount(Min(FaderOne, delay_amount + effect_step))
         [] key = "s" -> set_delay_amount(Max(0, delay_amount - effect_step))
         [] key = "e" -> set_reverb_amount(Min(FaderOne, reverb_amount + effect_step))
         [] key = "d" -> set_reverb_amount(Max(0, reverb_amount - effect_step))
         [] key = "esc" ->
              /\ controller' = [controller EXCEPT !.running = FALSE]
              /\ printed' = << <<"quit", "">> >>
              /\ NoBlock
              /\ last_call' = "_handle_key"
              /\ UNCHANGED <<load, tester, autoload, crossfade_engine, render, slot_vars,
                             volume, crossfader, fx_vars, is_playing, stream, cb>>

\* ---------------------------------------------------------- buffer management

\* How far _load_audio_to_buffer gets: "read_failed" (sf.read raises),
\* "render_failed" (_pre_render_buffer raises) or "ok".
LoadOutcome(file_info) ==
    LET read == FileSystem(file_info[3])
    IN  IF read = None THEN "read_failed"
        ELSE IF pre_render_buffer(read[1], file_info[2]) = None THEN "render_failed"
             ELSE "ok"

\* The buffer a successful load of file_info renders.
RenderedBuffer(file_info) == pre_render_buffer(FileSystem(file_info[3])[1], file_info[2])[1]

\* Whether _load_audio_to_buffer stores the source data and the crossfade_ms of
\* track_type before rendering (lines 314-320): it does so for both buffer types.
StoresTrackInfo(outcome, buffer_type) == outcome # "read_failed"

\* _load_audio_to_buffer(file_info, track_type, buffer_type); its return value
\* is LoadOutcome(file_info) = "ok".
load_audio_to_buffer(file_info, track_type, buffer_type) ==
    LET outcome == LoadOutcome(file_info)
        ok == outcome = "ok"
    IN  /\ data' = IF StoresTrackInfo(outcome, buffer_type)
                   THEN [data EXCEPT ![track_type] = FileSystem(file_info[3])]
                   ELSE data
        /\ crossfade_ms' = IF StoresTrackInfo(outcome, buffer_type)
                           THEN [crossfade_ms EXCEPT ![track_type] = file_info[2]]
                           ELSE crossfade_ms
        /\ current_buffer' = IF ok /\ buffer_type = "current"
                             THEN [current_buffer EXCEPT ![track_type] =
                                      Some(RenderedBuffer(file_info))]
                             ELSE current_buffer
        /\ current_buffer_position' = IF ok /\ buffer_type = "current"
                                      THEN [current_buffer_position EXCEPT ![track_type] = 0]
                                      ELSE current_buffer_position
        /\ next_buffer' = IF ok /\ buffer_type = "next"
                          THEN [next_buffer EXCEPT ![track_type] =
                                   Some(RenderedBuffer(file_info))]
                          ELSE next_buffer
        /\ next_buffer_position' = IF ok /\ buffer_type = "next"
                                   THEN [next_buffer_position EXCEPT ![track_type] = 0]
                                   ELSE next_buffer_position

\* What a load prints: the announcement, then the result.
LoadPrints(file_info, track_type, done_tag) ==
    << <<"loading", track_type>> >>
    \o (IF LoadOutcome(file_info) = "ok"
        THEN << <<"buffer_ready", track_type>>, <<done_tag, track_type>> >>
        ELSE << <<"error_loading", track_type>> >>)

\* load_initial_ambient(file_info) / load_initial_rhythm(file_info)
load_initial(track_type, file_info) ==
    /\ load_audio_to_buffer(file_info, track_type, "current")
    /\ current_file' = IF LoadOutcome(file_info) = "ok"
                       THEN [current_file EXCEPT ![track_type] = Some(file_info)]
                       ELSE current_file
    /\ printed' = LoadPrints(file_info, track_type, "initial_loaded")
    /\ NoBlock
    /\ last_call' = "load_initial"
    /\ UNCHANGED <<load, tester, autoload, crossfade_engine, controller, render, next_file, volume, crossfader, fx_vars, is_playing, stream, cb>>

\* A preload that keeps the file info of a request that is already pending.
preload_next_keeps_file(track_type, file_info) ==
    /\ load_audio_to_buffer(file_info, track_type, "next")
    /\ next_file' = IF LoadOutcome(file_info) = "ok" /\ next_file[track_type] = None
                    THEN [next_file EXCEPT ![track_type] = Some(file_info)]
                    ELSE next_file
    /\ printed' = LoadPrints(file_info, track_type, "preloaded")
    /\ NoBlock
    /\ last_call' = "preload_next"
    /\ UNCHANGED <<load, tester, autoload, crossfade_engine, controller, render, current_file, volume, crossfader, fx_vars, is_playing, stream,
                   cb>>

\* preload_next_ambient(file_info) / preload_next_rhythm(file_info)
preload_next(track_type, file_info) ==
    /\ load_audio_to_buffer(file_info, track_type, "next")
    /\ next_file' = IF LoadOutcome(file_info) = "ok"
                    THEN [next_file EXCEPT ![track_type] = Some(file_info)]
                    ELSE next_file
    /\ printed' = LoadPrints(file_info, track_type, "preloaded")
    /\ NoBlock
    /\ last_call' = "preload_next"
    /\ UNCHANGED <<load, tester, autoload, crossfade_engine, controller, render, current_file, volume, crossfader, fx_vars, is_playing, stream,
                   cb>>

\* ------------------------------------------------------------------ playback

\* start_playback(); outcome says whether sd.OutputStream(...) and stream.start()
\* succeed ("ok") or which of them raises.
start_playback(outcome) ==
    /\ IF ~is_playing
       THEN /\ stream' = CASE outcome = "create_fails" -> stream
                           [] outcome = "start_fails" -> "created"
                           [] OTHER -> "running"
            /\ is_playing' = (outcome = "ok")
            /\ printed' = IF outcome = "ok" THEN << <<"playback_started", "">> >> ELSE << >>
       ELSE /\ UNCHANGED <<stream, is_playing>>
            /\ printed' = << >>
    /\ NoBlock
    /\ last_call' = "start_playback"
    /\ UNCHANGED <<load, tester, autoload, crossfade_engine, controller, render, slot_vars, volume, crossfader, fx_vars, cb>>

\* stop_playback()
stop_playback ==
    /\ IF is_playing /\ stream # "none"
       THEN /\ stream' = "closed"
            /\ is_playing' = FALSE
            /\ printed' = << <<"playback_stopped", "">> >>
       ELSE /\ UNCHANGED <<stream, is_playing>>
            /\ printed' = << >>
    /\ NoBlock
    /\ last_call' = "stop_playback"
    /\ UNCHANGED <<load, tester, autoload, crossfade_engine, controller, render, slot_vars, volume, crossfader, fx_vars, cb>>

\* ------------------------------------------------------ the renderer at work

\* _pre_render_buffer's loop (lines 373-409) for render.loops passes over the
\* arguments in render.
render_loops ==
    /\ render.pc = "args"
    /\ render' = [render EXCEPT
                     !.pc = "looped",
                     !.full_buffer = FullBuffer(render.audio_data, render.crossfade_samples,
                                                render.loops)]
    /\ printed' = << >>
    /\ NoBlock
    /\ last_call' = "_pre_render_buffer"
    /\ UNCHANGED <<load, tester, autoload, crossfade_engine, controller, slot_vars, volume, crossfader, fx_vars,
                   is_playing, stream, cb>>

\* _pre_render_buffer(audio_data, crossfade_ms, buffer_name) as a whole, for
\* the arguments in render and an engine whose target length is render.target.
pre_render ==
    /\ render.pc = "args"
    /\ LET r == PreRender(render.audio_data, render.crossfade_samples, render.target)
       IN  render' = [render EXCEPT
                         !.pc = IF r.raised THEN "raised" ELSE "done",
                         !.loops = r.loops,
                         !.full_buffer = r.full_buffer,
                         !.buffer = r.buffer]
    /\ printed' = << >>
    /\ NoBlock
    /\ last_call' = "_pre_render_buffer"
    /\ UNCHANGED <<load, tester, autoload, crossfade_engine, controller, slot_vars, volume, crossfader, fx_vars,
                   is_playing, stream, cb>>

\* ------------------------------------------------------------ audio callback

\* _get_audio_chunk(buffer, position, frames)
get_audio_chunk(buffer, position, frames) ==
    IF position + frames <= Len(buffer)
    THEN SubSeq(buffer, position + 1, position + frames)
    ELSE From(buffer, position) \o Upto(buffer, frames - (Len(buffer) - position))

\* The cursor the callback stores after reading a chunk (lines 222 and 232).
AdvancedPosition(position, frames, buffer) == (position + frames) % Len(buffer)

\* A callback that reads every slot that has a buffer, audible or not.
SlotIsMixed_ignores_volume(buffer, vol) == buffer # None

\* The guard under which the callback reads a slot (lines 216 and 226).
SlotIsMixed(buffer, vol) == buffer # None /\ vol > 0

\* np.zeros((frames, channels))
Zeros(frames) == [i \in 1..frames |-> 0]

\* output += chunk * vol; None when numpy cannot broadcast chunk to output's shape.
MixIn(output, chunk, vol) ==
    IF Len(chunk) = Len(output) \/ Len(chunk) = 1
    THEN Some([i \in 1..Len(output) |-> output[i] + Row(chunk, i) * vol])
    ELSE None

\* pedalboard's process(): what an effect with outcome "same" or "loud" returns.
Process(outcome, audio) ==
    IF outcome = "loud" THEN [i \in 1..Len(audio) |-> 3 * audio[i]] ELSE audio

\* An _apply_effects that runs the delay whatever the delay amount is.
apply_effects_always_delays(audio, fx, d_amount, r_amount) ==
    IF fx[1] = "raise" THEN [audio |-> audio, error |-> TRUE]
    ELSE LET delayed == IF fx[1] = "loud" THEN [i \in 1..Len(audio) |-> 3 * audio[i]]
                        ELSE audio
         IN  IF r_amount > 0 /\ fx[2] = "raise" THEN [audio |-> delayed, error |-> TRUE]
             ELSE [audio |-> IF r_amount > 0 /\ fx[2] = "loud"
                             THEN [i \in 1..Len(delayed) |-> 3 * delayed[i]]
                             ELSE delayed,
                   error |-> FALSE]

\* _apply_effects(audio) when the delay and the reverb behave as fx = <<d, r>>:
\* the block it returns and whether it printed an error.
apply_effects(audio, fx, d_amount, r_amount) ==
    IF d_amount > 0 /\ fx[1] = "raise" THEN [audio |-> audio, error |-> TRUE]
    ELSE LET delayed == IF d_amount > 0 THEN Process(fx[1], audio) ELSE audio
         IN  IF r_amount > 0 /\ fx[2] = "raise" THEN [audio |-> delayed, error |-> TRUE]
             ELSE [audio |-> IF r_amount > 0 THEN Process(fx[2], delayed) ELSE delayed,
                   error |-> FALSE]

\* np.clip(output, -1.0, 1.0)
Clip(output) == [i \in 1..Len(output) |-> Max(-OutOne, Min(OutOne, output[i]))]

\* A callback that clips the mix first and runs the effects on the clipped block.
Finish_clips_before_effects(output, fx, d_amount, r_amount) ==
    IF d_amount > 0 \/ r_amount > 0
    THEN apply_effects(Clip(output), fx, d_amount, r_amount).audio
    ELSE Clip(output)

\* Lines 235-240: the effects, when one is on, and then the clip.
Finish(output, fx, d_amount, r_amount) ==
    Clip(IF d_amount > 0 \/ r_amount > 0
         THEN apply_effects(output, fx, d_amount, r_amount).audio
         ELSE output)

\* Lines 215-223 / 225-233 for one slot, run without interruption: the cursor
\* afterwards and the accumulated output (None when the += raises).
MixSlot(output, buffer, position, vol, frames) ==
    IF SlotIsMixed(buffer, vol)
    THEN [position |-> AdvancedPosition(position, frames, buffer[1]),
          output |-> MixIn(output, get_audio_chunk(buffer[1], position, frames), vol)]
    ELSE [position |-> position, output |-> Some(output)]

\* audio_callback(outdata, frames, time, status), run without interruption.
audio_callback(frames, status, fx) ==
    LET a == MixSlot(Zeros(frames), current_buffer["ambient"],
                     current_buffer_position["ambient"], volume["ambient"], frames)
        r == IF a.output = None
             THEN [position |-> current_buffer_position["rhythm"], output |-> None]
             ELSE MixSlot(a.output[1], current_buffer["rhythm"],
                          current_buffer_position["rhythm"], volume["rhythm"], frames)
        fx_on == delay_amount > 0 \/ reverb_amount > 0
    IN  /\ stream = "running"
        /\ cb.pc = "idle"
        /\ current_buffer_position' =
             [s \in Slots |-> IF s = "ambient" THEN a.position ELSE r.position]
        /\ callback_raised' = (r.output = None)
        /\ asked_frames' = frames
        /\ outdata' = IF r.output = None THEN outdata
                      ELSE Finish(r.output[1], fx, delay_amount, reverb_amount)
        /\ printed' = (IF status THEN << <<"audio_status", "">> >> ELSE << >>)
                      \o (IF r.output # None /\ fx_on
                             /\ apply_effects(r.output[1], fx, delay_amount,
                                              reverb_amount).error
                          THEN << <<"error_effects", "">> >> ELSE << >>)
        /\ last_call' = "audio_callback"
        /\ UNCHANGED <<load, tester, autoload, crossfade_engine, controller, render, current_buffer, next_buffer, next_buffer_position, current_file,
                       next_file, crossfade_ms, data, volume, crossfader, fx_vars,
                       is_playing, stream, cb>>

\* --------------------------------------- audio callback, statement by statement
\* The callback runs on the audio thread; the control thread can run between
\* any two of its reads and writes of the engine's attributes.  cb holds the
\* callback's locals:  pc says what it does next.

\* The callback is entered: output = np.zeros((frames, channels)).
cb_enter(frames, fx) ==
    /\ stream = "running"
    /\ cb.pc = "idle"
    /\ cb' = [CbIdle EXCEPT !.pc = "guard", !.slot = "ambient", !.frames = frames,
                            !.fx = fx, !.output = Zeros(frames)]
    /\ UNCHANGED <<load, tester, autoload, crossfade_engine, controller, render, slot_vars, volume, crossfader, fx_vars, is_playing, stream, out_vars,
                   printed, last_call>>

\* Where the callback goes when it is done with cb.slot.
AfterSlot == IF cb.slot = "ambient" THEN "guard" ELSE "finish"

\* Lines 216 / 226: if self.current_X_buffer is not None and self.X_volume > 0
cb_guard ==
    /\ cb.pc = "guard"
    /\ cb' = IF SlotIsMixed(current_buffer[cb.slot], volume[cb.slot])
             THEN [cb EXCEPT !.pc = "read_buffer"]
             ELSE [cb EXCEPT !.pc = AfterSlot, !.slot = "rhythm"]
    /\ UNCHANGED <<load, tester, autoload, crossfade_engine, controller, render, slot_vars, volume, crossfader, fx_vars, is_playing, stream, out_vars,
                   printed, last_call>>

\* Lines 218 / 228: the first argument, self.current_X_buffer, is read.
cb_read_buffer ==
    /\ cb.pc = "read_buffer"
    /\ cb' = [cb EXCEPT !.pc = "read_position", !.buffer = current_buffer[cb.slot]]
    /\ UNCHANGED <<load, tester, autoload, crossfade_engine, controller, render, slot_vars, volume, crossfader, fx_vars, is_playing, stream, out_vars,
                   printed, last_call>>

\* Lines 219-221 / 229-231: the second argument, self.current_X_buffer_position,
\* is read and _get_audio_chunk returns the chunk.
cb_read_position ==
    /\ cb.pc = "read_position"
    /\ cb' = [cb EXCEPT !.pc = "advance_read",
                        !.position = current_buffer_position[cb.slot],
                        !.chunk = get_audio_chunk(cb.buffer[1],
                                                  current_buffer_position[cb.slot],
                                                  cb.frames)]
    /\ UNCHANGED <<load, tester, autoload, crossfade_engine, controller, render, slot_vars, volume, crossfader, fx_vars, is_playing, stream, out_vars,
                   printed, last_call>>

\* Lines 222 / 232, right-hand side: the cursor is read again.
cb_advance_read ==
    /\ cb.pc = "advance_read"
    /\ cb' = [cb EXCEPT !.pc = "advance_store",
                        !.position2 = current_buffer_position[cb.slot]]
    /\ UNCHANGED <<load, tester, autoload, crossfade_engine, controller, render, slot_vars, volume, crossfader, fx_vars, is_playing, stream, out_vars,
                   printed, last_call>>

\* Lines 222 / 232: len(self.current_X_buffer) is taken and the cursor stored.
cb_advance_store ==
    /\ cb.pc = "advance_store"
    /\ current_buffer_position' =
         [current_buffer_position EXCEPT ![cb.slot] =
             AdvancedPosition(cb.position2, cb.frames, current_buffer[cb.slot][1])]
    /\ cb' = [cb EXCEPT !.pc = "mix"]
    /\ UNCHANGED <<load, tester, autoload, crossfade_engine, controller, render, current_buffer, next_buffer, next_buffer_position, current_file,
                   next_file, crossfade_ms, data, volume, crossfader, fx_vars,
                   is_playing, stream, out_vars, printed, last_call>>

\* Lines 223 / 233: output += chunk * self.X_volume; the callback ends here when
\* the += raises.
cb_mix ==
    /\ cb.pc = "mix"
    /\ LET mixed == MixIn(cb.output, cb.chunk, volume[cb.slot])
       IN  IF mixed = None
           THEN /\ cb' = CbIdle
                /\ callback_raised' = TRUE
                /\ asked_frames' = cb.frames
                /\ printed' = << >>
                /\ last_call' = "audio_callback"
                /\ UNCHANGED outdata
           ELSE /\ cb' = [cb EXCEPT !.pc = AfterSlot, !.slot = "rhythm",
                                    !.output = mixed[1]]
                /\ UNCHANGED <<out_vars, printed, last_call>>
    /\ UNCHANGED <<load, tester, autoload, crossfade_engine, controller, render, slot_vars, volume, crossfader, fx_vars, is_playing, stream>>

\* Lines 235-243: the effects, the clip and outdata[:] = output.
cb_finish ==
    /\ cb.pc = "finish"
    /\ outdata' = Finish(cb.output, cb.fx, delay_amount, reverb_amount)
    /\ callback_raised' = FALSE
    /\ asked_frames' = cb.frames
    /\ printed' = IF (delay_amount > 0 \/ reverb_amount > 0)
                     /\ apply_effects(cb.output, cb.fx, delay_amount, reverb_amount).error
                  THEN << <<"error_effects", "">> >> ELSE << >>
    /\ last_call' = "audio_callback"
    /\ cb' = CbIdle
    /\ UNCHANGED <<load, tester, autoload, crossfade_engine, controller, render, slot_vars, volume, crossfader, fx_vars, is_playing, stream>>

\* ------------------------------------------------------------ specification

\* --------------------------------------------------- CrossfadeAudioEngine

\* load_config(wav_path): the crossfade_ms of the .txt next to the file, or the
\* default 1000 when there is none.
CrossfadeConfigs == {0, 500, 1000}

\* CrossfadeAudioEngine.load_audio_file(filepath, track) when load_config
\* yields config_ms.
crossfade_load_audio_file(filepath, track, config_ms) ==
    LET read == FileSystem(filepath)
    IN  /\ crossfade_engine' =
             IF read = None THEN crossfade_engine
             ELSE [crossfade_engine EXCEPT !.data[track] = read,
                                           !.crossfade_ms[track] = config_ms,
                                           !.position[track] = 0]
        /\ printed' = IF read = None THEN << <<"error_loading", track>> >>
                      ELSE << <<"loaded", track>> >>
        /\ NoBlock
        /\ last_call' = "CrossfadeAudioEngine.load_audio_file"
        /\ UNCHANGED <<load, tester, autoload, controller, render, slot_vars, volume, crossfader, fx_vars,
                       is_playing, stream, cb>>

\* end_segment[-c:] *= fade_out, where end_segment is a view of samples that
\* ends at its last frame: the array afterwards.
FadedTail(samples, c) ==
    [i \in 1..Len(samples) |->
        IF i > Len(samples) - c THEN FadeOut(samples[i], i - (Len(samples) - c) - 1, c)
        ELSE samples[i]]

\* start_segment[:c] *= fade_in, where start_segment is a view of samples that
\* begins at its first frame: the array afterwards.
FadedHead(samples, c) ==
    [i \in 1..Len(samples) |-> IF i <= c THEN FadeIn(samples[i], i - 1, c) ELSE samples[i]]

\* _get_chunk_with_crossfade(data, position, config) with frames =
\* self.buffer_size: the chunk, the new position, and the array data refers to
\* when the call returns.
get_chunk_with_crossfade(samples, position, config_ms, frames) ==
    LET crossfade_samples == (config_ms * sample_rate) \div 1000
        end_pos == position + frames
        remaining == Len(samples) - position
        wrap_amount == frames - remaining
        after == IF /\ crossfade_samples > 0
                    /\ remaining >= crossfade_samples
                    /\ wrap_amount >= crossfade_samples
                 THEN FadedHead(FadedTail(samples, crossfade_samples), crossfade_samples)
                 ELSE samples
    IN  IF end_pos <= Len(samples)
        THEN [data |-> samples, chunk |-> SubSeq(samples, position + 1, end_pos),
              position |-> end_pos]
        ELSE [data |-> after, chunk |-> From(after, position) \o Upto(after, wrap_amount),
              position |-> wrap_amount]

\* One track of CrossfadeAudioEngine.audio_callback (lines 140-147 / 150-157):
\* the engine afterwards and the accumulated output (None when the += raises).
CrossfadeSlot(engine, s, output) ==
    IF engine.data[s] = None THEN [engine |-> engine, output |-> Some(output)]
    ELSE LET got == get_chunk_with_crossfade(engine.data[s][1], engine.position[s],
                                             engine.crossfade_ms[s], engine.buffer_size)
         IN  [engine |-> [engine EXCEPT !.data[s] = Some(got.data),
                                        !.position[s] = got.position],
              output |-> MixIn(output, got.chunk, engine.volume[s])]

\* CrossfadeAudioEngine.audio_callback(outdata, frames, time, status); the
\* stream asks for blocksize = buffer_size frames.
crossfade_audio_callback(status) ==
    LET frames == crossfade_engine.buffer_size
        a == CrossfadeSlot(crossfade_engine, "ambient", Zeros(frames))
        r == IF a.output = None THEN a ELSE CrossfadeSlot(a.engine, "rhythm", a.output[1])
    IN  /\ crossfade_engine.stream = "running"
        /\ crossfade_engine' = r.engine
        /\ callback_raised' = (r.output = None)
        /\ asked_frames' = frames
        /\ outdata' = IF r.output = None THEN outdata ELSE Clip(r.output[1])
        /\ printed' = IF status THEN << <<"audio_status", "">> >> ELSE << >>
        /\ last_call' = "CrossfadeAudioEngine.audio_callback"
        /\ UNCHANGED <<load, tester, autoload, controller, render, slot_vars, volume, crossfader, fx_vars,
                       is_playing, stream, cb>>

\* CrossfadeAudioEngine.set_volumes(ambient_vol, rhythm_vol)
crossfade_set_volumes(ambient_vol, rhythm_vol) ==
    /\ crossfade_engine' =
          [crossfade_engine EXCEPT
              !.volume = [s \in Slots |->
                             Max(0, Min(GainOne, IF s = "ambient" THEN ambient_vol
                                                 ELSE rhythm_vol))]]
    /\ printed' = << >>
    /\ NoBlock
    /\ last_call' = "CrossfadeAudioEngine.set_volumes"
    /\ UNCHANGED <<load, tester, autoload, controller, render, slot_vars, volume, crossfader, fx_vars,
                   is_playing, stream, cb>>

\* CrossfadeAudioEngine.play(); outcome says whether sd.OutputStream(...) and
\* stream.start() succeed ("ok") or which of them raises.
crossfade_play(outcome) ==
    /\ crossfade_engine' =
          IF crossfade_engine.is_playing THEN crossfade_engine
          ELSE [crossfade_engine EXCEPT
                   !.is_playing = TRUE,
                   !.stream = CASE outcome = "create_fails" -> @
                                [] outcome = "start_fails" -> "created"
                                [] OTHER -> "running"]
    /\ printed' = IF ~crossfade_engine.is_playing /\ outcome = "ok"
                  THEN << <<"playback_started", "">> >> ELSE << >>
    /\ NoBlock
    /\ last_call' = "CrossfadeAudioEngine.play"
    /\ UNCHANGED <<load, tester, autoload, controller, render, slot_vars, volume, crossfader, fx_vars,
                   is_playing, stream, cb>>

\* CrossfadeAudioEngine.stop(); self.stream.stop() raises AttributeError when
\* no stream was ever created.
crossfade_stop ==
    /\ crossfade_engine' =
          IF ~crossfade_engine.is_playing THEN crossfade_engine
          ELSE [crossfade_engine EXCEPT
                   !.is_playing = FALSE,
                   !.stream = IF @ = "none" THEN @ ELSE "closed"]
    /\ printed' = IF crossfade_engine.is_playing /\ crossfade_engine.stream # "none"
                  THEN << <<"playback_stopped", "">> >> ELSE << >>
    /\ NoBlock
    /\ last_call' = "CrossfadeAudioEngine.stop"
    /\ UNCHANGED <<load, tester, autoload, controller, render, slot_vars, volume, crossfader, fx_vars,
                   is_playing, stream, cb>>

\* ------------------------------------- the effects controller's main loop
\* main() polls engine.crossfader on the main thread while the input thread
\* runs MidiHandler._handle_key; controller.pc says which statement of the
\* loop comes next and controller.reloading which branch this pass has taken.

\* prev_crossfader = 0.0, and the while loop is entered if midi.running.
main_enter ==
    /\ controller.pc = "off"
    /\ controller' = [controller EXCEPT
                         !.pc = IF controller.running THEN "if" ELSE "cleanup",
                         !.prev_crossfader = 0]
    /\ printed' = << >>
    /\ NoBlock
    /\ last_call' = "main"
    /\ UNCHANGED <<load, tester, autoload, crossfade_engine, render, slot_vars, volume, crossfader, fx_vars,
                   is_playing, stream, cb>>

\* if engine.crossfader >= 0.95 and prev_crossfader < 0.95:
main_if ==
    /\ controller.pc = "if"
    /\ controller' =
          [controller EXCEPT
              !.pc = IF /\ crossfader >= FaderOne - FaderOne \div 20
                        /\ controller.prev_crossfader < FaderOne - FaderOne \div 20
                     THEN "reload_ambient" ELSE "elif",
              !.reloading = ""]
    /\ printed' = << >>
    /\ NoBlock
    /\ last_call' = "main"
    /\ UNCHANGED <<load, tester, autoload, crossfade_engine, render, slot_vars, volume, crossfader, fx_vars,
                   is_playing, stream, cb>>

\* elif engine.crossfader <= 0.05 and prev_crossfader > 0.05:
main_elif ==
    /\ controller.pc = "elif"
    /\ controller' =
          [controller EXCEPT
              !.pc = IF /\ crossfader <= FaderOne \div 20
                        /\ controller.prev_crossfader > FaderOne \div 20
                     THEN "reload_rhythm" ELSE "update"]
    /\ printed' = << >>
    /\ NoBlock
    /\ last_call' = "main"
    /\ UNCHANGED <<load, tester, autoload, crossfade_engine, render, slot_vars, volume, crossfader, fx_vars,
                   is_playing, stream, cb>>

\* The body of either branch: the message, file_mgr.get_random_<slot>() and,
\* when it found a file other than the current one, engine.load_new_<slot>(...),
\* which AudioEngine does not have: the AttributeError ends the loop.
main_reload(found) ==
    /\ controller.pc \in {"reload_ambient", "reload_rhythm"}
    /\ LET track_type == IF controller.pc = "reload_ambient" THEN "ambient" ELSE "rhythm"
       IN  /\ controller' = [controller EXCEPT
                                !.pc = IF found THEN "crashed" ELSE "update",
                                !.reloading = track_type]
           /\ printed' = << <<"silent_loading", track_type>> >>
    /\ NoBlock
    /\ last_call' = "main"
    /\ UNCHANGED <<load, tester, autoload, crossfade_engine, render, slot_vars, volume, crossfader, fx_vars,
                   is_playing, stream, cb>>

\* prev_crossfader = engine.crossfader
main_update ==
    /\ controller.pc = "update"
    /\ controller' = [controller EXCEPT !.pc = "sleep", !.prev_crossfader = crossfader]
    /\ printed' = << >>
    /\ NoBlock
    /\ last_call' = "main"
    /\ UNCHANGED <<load, tester, autoload, crossfade_engine, render, slot_vars, volume, crossfader, fx_vars,
                   is_playing, stream, cb>>

\* time.sleep(0.05), and the next pass of the loop while midi.running.
main_sleep ==
    /\ controller.pc = "sleep"
    /\ controller' = [controller EXCEPT
                         !.pc = IF controller.running THEN "if" ELSE "cleanup"]
    /\ printed' = << >>
    /\ NoBlock
    /\ last_call' = "main"
    /\ UNCHANGED <<load, tester, autoload, crossfade_engine, render, slot_vars, volume, crossfader, fx_vars,
                   is_playing, stream, cb>>

\* After the loop: display.stop(), engine.stop_playback(), midi.cleanup().
main_cleanup ==
    /\ controller.pc = "cleanup"
    /\ controller' = [controller EXCEPT !.pc = "done"]
    /\ IF is_playing /\ stream # "none"
       THEN /\ stream' = "closed"
            /\ is_playing' = FALSE
            /\ printed' = << <<"playback_stopped", "">> >>
       ELSE /\ UNCHANGED <<stream, is_playing>>
            /\ printed' = << >>
    /\ NoBlock
    /\ last_call' = "main"
    /\ UNCHANGED <<load, tester, autoload, crossfade_engine, render, slot_vars, volume,
                   crossfader, fx_vars, cb>>

\* ------------------------------------------ a preload, statement by statement
\* preload_next_<slot> runs on the thread that loads files while set_crossfader
\* runs on the input thread; load holds the preload's locals.

\* preload_next_<slot>(file_info) up to the render: _load_audio_to_buffer reads
\* the file, stores the source data and crossfade_ms (lines 314-320) and renders
\* the buffer (line 323); a failure returns False from here.
preload_read_and_render(track_type, file_info) ==
    LET outcome == LoadOutcome(file_info)
    IN  /\ load.pc = "idle"
        /\ data' = IF StoresTrackInfo(outcome, "next")
                   THEN [data EXCEPT ![track_type] = FileSystem(file_info[3])]
                   ELSE data
        /\ crossfade_ms' = IF StoresTrackInfo(outcome, "next")
                           THEN [crossfade_ms EXCEPT ![track_type] = file_info[2]]
                           ELSE crossfade_ms
        /\ load' = IF outcome = "ok"
                   THEN [pc |-> "assign", track_type |-> track_type,
                         file_info |-> file_info,
                         buffer |-> Some(RenderedBuffer(file_info))]
                   ELSE LoadIdle
        /\ printed' = << <<"loading", track_type>> >>
                      \o (IF outcome = "ok" THEN << >>
                          ELSE << <<"error_loading", track_type>> >>)
        /\ NoBlock
        /\ last_call' = "preload_next"
        /\ UNCHANGED <<tester, autoload, crossfade_engine, controller, render,
                       current_buffer, current_buffer_position, next_buffer,
                       next_buffer_position, current_file, next_file, volume,
                       crossfader, fx_vars, is_playing, stream, cb>>

\* self.next_<slot>_buffer = buffer; self.next_<slot>_buffer_position = 0
\* (lines 333-339), and _load_audio_to_buffer returns True.
preload_assign_buffer ==
    /\ load.pc = "assign"
    /\ next_buffer' = [next_buffer EXCEPT ![load.track_type] = load.buffer]
    /\ next_buffer_position' = [next_buffer_position EXCEPT ![load.track_type] = 0]
    /\ load' = [load EXCEPT !.pc = "file"]
    /\ printed' = << <<"buffer_ready", load.track_type>> >>
    /\ NoBlock
    /\ last_call' = "preload_next"
    /\ UNCHANGED <<tester, autoload, crossfade_engine, controller, render,
                   current_buffer, current_buffer_position, current_file, next_file,
                   crossfade_ms, data, volume, crossfader, fx_vars, is_playing, stream,
                   cb>>

\* if success: self.next_<slot>_file = file_info (lines 284-286 / 292-294).
preload_assign_file ==
    /\ load.pc = "file"
    /\ next_file' = [next_file EXCEPT ![load.track_type] = Some(load.file_info)]
    /\ load' = LoadIdle
    /\ printed' = << <<"preloaded", load.track_type>> >>
    /\ NoBlock
    /\ last_call' = "preload_next"
    /\ UNCHANGED <<tester, autoload, crossfade_engine, controller, render,
                   current_buffer, current_buffer_position, next_buffer,
                   next_buffer_position, current_file, crossfade_ms, data, volume,
                   crossfader, fx_vars, is_playing, stream, cb>>

\* ------------------------------------------- the pre-render tester's renderer

\* buffer[start:start + len(frames)] = frames, start 0-based.
SliceAssign(buffer, start, frames) ==
    [i \in 1..Len(buffer) |->
        IF i > start /\ i <= start + Len(frames) THEN frames[i - start] ELSE buffer[i]]

\* start_sample of pass loop >= 1 of PreRenderCrossfade.pre_render_buffer.
start_sample(total_samples, crossfade_samples, loop) ==
    total_samples + (loop - 1) * (total_samples - crossfade_samples)

\* prev_end * (1 - t) + curr_start * t with t = np.linspace(0, 1, crossfade_samples),
\* prev_end read from the buffer itself.
crossfade_region(buffer, audio_data, crossfade_samples, start) ==
    [i \in 1..crossfade_samples |->
        FadeOut(buffer[start - crossfade_samples + i], i - 1, crossfade_samples)
        + FadeIn(audio_data[i], i - 1, crossfade_samples)]

\* The buffer after the crossfade region of pass loop has been written.
write_crossfade_region(buffer, audio_data, crossfade_samples, loop) ==
    LET start == start_sample(Len(audio_data), crossfade_samples, loop)
    IN  SliceAssign(buffer, start - crossfade_samples,
                    crossfade_region(buffer, audio_data, crossfade_samples, start))

\* The buffer after the rest of the loop of pass loop has been written.
write_rest_of_loop(buffer, audio_data, crossfade_samples, loop) ==
    LET start == start_sample(Len(audio_data), crossfade_samples, loop)
    IN  IF Len(audio_data) - crossfade_samples > 0
        THEN SliceAssign(buffer, start, From(audio_data, crossfade_samples))
        ELSE buffer

\* for loop in range(loop, buffer_loops): the passes that are left.
RECURSIVE tester_render_from(_, _, _, _, _)
tester_render_from(buffer, audio_data, crossfade_samples, loop, buffer_loops) ==
    IF loop >= buffer_loops THEN buffer
    ELSE tester_render_from(
            write_rest_of_loop(
               write_crossfade_region(buffer, audio_data, crossfade_samples, loop),
               audio_data, crossfade_samples, loop),
            audio_data, crossfade_samples, loop + 1, buffer_loops)

\* total_buffer_samples
total_buffer_samples(total_samples, crossfade_samples, buffer_loops) ==
    total_samples + (buffer_loops - 1) * (total_samples - crossfade_samples)

\* np.zeros((total_buffer_samples, 2)) with the first loop written.
first_loop_buffer(audio_data, crossfade_samples, buffer_loops) ==
    SliceAssign([i \in 1..total_buffer_samples(Len(audio_data), crossfade_samples,
                                               buffer_loops) |-> 0],
                0, audio_data)

\* PreRenderCrossfade.pre_render_buffer for audio_data, crossfade_samples and
\* buffer_loops >= 1: the buffer, or None when numpy raises (a crossfade longer
\* than the source with two or more loops: the zeros are shorter than the
\* source or of negative length).
tester_pre_render_buffer(audio_data, crossfade_samples, buffer_loops) ==
    IF crossfade_samples > Len(audio_data) /\ buffer_loops >= 2 THEN None
    ELSE Some(tester_render_from(
                 first_loop_buffer(audio_data, crossfade_samples, buffer_loops),
                 audio_data, crossfade_samples, 1, buffer_loops))

\* ------------------------------------------------------ the pre-render tester

\* self.buffer_loops (10 in the source).
buffer_loops == 3

\* What a tester handler leaves alone: everything but the tester.
TesterStep(name) ==
    /\ printed' = << >>
    /\ NoBlock
    /\ last_call' = name
    /\ UNCHANGED <<load, autoload, crossfade_engine, controller, render, slot_vars, volume,
                   crossfader, fx_vars, is_playing, stream, cb>>

\* self.buffer after a pre_render_buffer that raised: np.zeros raises for a
\* negative length before self.buffer is assigned; otherwise the zeros are
\* assigned and the first slice assignment raises.
buffer_after_failed_render(buffer, audio_data, crossfade_samples) ==
    LET total == total_buffer_samples(Len(audio_data), crossfade_samples, buffer_loops)
    IN  IF total < 0 THEN buffer ELSE Some([i \in 1..total |-> 0])

\* load_file(filepath, filename, duration) for a file of frames audio_data
\* whose config file holds crossfade_ms = config[1], or that has none
\* (config = None); 'n' has paused playback before a later file is selected.
tester_load_file(audio_data, config) ==
    /\ tester.pc = "idle"
    /\ LET ms == IF config = None THEN tester.crossfade_ms ELSE config[1]
           samples == CrossfadeSamples(ms)
           rendered == tester_pre_render_buffer(audio_data, samples, buffer_loops)
       IN  tester' = [tester EXCEPT
                         !.audio_data = Some(audio_data),
                         !.total_samples = Len(audio_data),
                         !.buffer_position = 0,
                         !.loops_completed = 0,
                         !.crossfade_ms = ms,
                         !.crossfade_samples = samples,
                         !.is_playing = FALSE,
                         !.buffer = IF rendered = None
                                    THEN buffer_after_failed_render(tester.buffer, audio_data,
                                                                    samples)
                                    ELSE rendered]
    /\ TesterStep("load_file")

\* handle_key(key) for the keys that do not re-render, load or save.
tester_handle_key(key) ==
    /\ tester.pc = "idle"
    /\ tester' =
         CASE key = "p" -> [tester EXCEPT !.is_playing = ~tester.is_playing,
                                          !.continuous_mode = FALSE,
                                          !.play_once_mode = FALSE]
           [] key = "l" -> [tester EXCEPT !.is_playing = TRUE,
                                          !.continuous_mode = FALSE,
                                          !.play_once_mode = TRUE,
                                          !.loops_completed = 0]
           [] key = "c" -> [tester EXCEPT !.is_playing = TRUE,
                                          !.continuous_mode = TRUE,
                                          !.play_once_mode = FALSE]
           [] key = "r" -> [tester EXCEPT !.buffer_position = 0, !.loops_completed = 0]
           [] key = " " -> [tester EXCEPT !.is_playing = ~tester.is_playing]
    /\ TesterStep("handle_key")

\* adjust_crossfade(delta_ms) up to and including self.buffer = np.zeros(...)
\* in pre_render_buffer; the whole call when nothing is rendered.
adjust_crossfade(delta_ms) ==
    /\ tester.pc = "idle"
    /\ LET new_ms == Max(0, Min(30000, tester.crossfade_ms + delta_ms))
           samples == CrossfadeSamples(new_ms)
           total == total_buffer_samples(tester.total_samples, samples, buffer_loops)
       IN  IF new_ms = tester.crossfade_ms THEN tester' = tester
           ELSE IF tester.audio_data = None
                THEN tester' = [tester EXCEPT !.crossfade_ms = new_ms,
                                              !.crossfade_samples = samples]
                ELSE IF total < 0
                     THEN tester' = [tester EXCEPT !.crossfade_ms = new_ms,
                                                   !.crossfade_samples = samples,
                                                   !.pc = "crashed"]
                     ELSE tester' = [tester EXCEPT !.crossfade_ms = new_ms,
                                                   !.crossfade_samples = samples,
                                                   !.buffer = Some([i \in 1..total |-> 0]),
                                                   !.pc = "first"]
    /\ TesterStep("adjust_crossfade")

\* pre_render_buffer, called by adjust_crossfade, one write at a time: the
\* first loop, then one pass of the loop for each step.
adjust_render_step ==
    /\ tester.pc \in {"first", "loop"}
    /\ LET audio == tester.audio_data[1]
           c == tester.crossfade_samples
       IN  IF tester.pc = "first"
           THEN IF c > Len(audio) /\ buffer_loops >= 2
                THEN tester' = [tester EXCEPT !.pc = "crashed"]
                ELSE tester' = [tester EXCEPT
                                   !.buffer = Some(SliceAssign(tester.buffer[1], 0, audio)),
                                   !.loop = 1,
                                   !.pc = IF buffer_loops > 1 THEN "loop" ELSE "reset"]
           ELSE tester' = [tester EXCEPT
                              !.buffer = Some(write_rest_of_loop(
                                                 write_crossfade_region(tester.buffer[1], audio,
                                                                        c, tester.loop),
                                                 audio, c, tester.loop)),
                              !.loop = tester.loop + 1,
                              !.pc = IF tester.loop + 1 < buffer_loops THEN "loop" ELSE "reset"]
    /\ TesterStep("pre_render_buffer")

\* adjust_crossfade after pre_render_buffer has returned: self.buffer_position = 0.
adjust_reset_position ==
    /\ tester.pc = "reset"
    /\ tester' = [tester EXCEPT !.buffer_position = 0, !.loop = 0, !.pc = "idle"]
    /\ TesterStep("adjust_crossfade")

\* loop_end of pass loop in audio_callback.
loop_end(loop) ==
    tester.total_samples + loop * (tester.total_samples - tester.crossfade_samples)

\* Rows of outdata[start:] for a block of frames rows.
RowsFrom(frames, start) == IF start >= 0 THEN Max(frames - start, 0) ELSE Min(-start, frames)

\* PreRenderCrossfade.audio_callback(outdata, frames, time, status) with no
\* status; stale is what the device's block held in the rows the callback
\* does not write.
tester_audio_callback(frames, stale) ==
    /\ tester.pc # "crashed"
    /\ ~tester.callback_failed
    /\ IF tester.buffer = None \/ ~tester.is_playing
       THEN tester' = [tester EXCEPT !.outdata = [i \in 1..frames |-> 0]]
       ELSE LET buffer == tester.buffer[1]
                position == tester.buffer_position
                remaining_in_buffer == Len(buffer) - position
                frames_to_read == Min(frames, remaining_in_buffer)
                position1 == IF frames_to_read > 0 THEN position + frames_to_read ELSE position
                passed == IF frames_to_read > 0
                          THEN Cardinality({loop \in 0..(buffer_loops - 1) :
                                               position < loop_end(loop)
                                               /\ loop_end(loop) <= position1})
                          ELSE 0
                wraps == frames_to_read < frames /\ tester.continuous_mode
                remaining_frames == frames - frames_to_read
                wrapped == Upto(buffer, remaining_frames)
                silent_rows == RowsFrom(frames, frames_to_read)
                raises == wraps /\ Len(wrapped) # silent_rows /\ Len(wrapped) # 1
                block == [i \in 1..frames |->
                            IF i <= frames_to_read THEN buffer[position + i]
                            ELSE IF i <= frames - silent_rows THEN stale
                            ELSE IF wraps /\ ~raises
                                 THEN wrapped[IF Len(wrapped) = 1 THEN 1
                                              ELSE i - (frames - silent_rows)]
                                 ELSE 0]
                stops == tester.play_once_mode /\ tester.loops_completed + passed >= 1
            IN  IF raises
                THEN tester' = [tester EXCEPT !.buffer_position = 0,
                                              !.loops_completed = @ + passed,
                                              !.frames_to_read = frames_to_read,
                                              !.outdata = block,
                                              !.callback_failed = TRUE]
                ELSE tester' = [tester EXCEPT
                                   !.buffer_position = IF wraps THEN remaining_frames
                                                       ELSE position1,
                                   !.loops_completed = @ + passed,
                                   !.frames_to_read = frames_to_read,
                                   !.outdata = block,
                                   !.is_playing = IF stops THEN FALSE ELSE @,
                                   !.play_once_mode = IF stops THEN FALSE ELSE @]
    /\ TesterStep("tester_audio_callback")

\* ------------------------------------------- the fixed auto-load controller

\* self.deadzone_time (0.1 s) in passes of the loop (time.sleep(0.02) each).
deadzone_time == 2

\* The most loads per slot a run is followed for.
MaxPlayCount == 3

\* One pass of the loop of FixedAutoLoadController.run() with
\* get_knob_percentage(1) returning percent; both slots have a next file,
\* so that _load_new_ambient and _load_new_rhythm load. The engine calls of
\* the pass act on the engine of the script, which is not this AudioEngine.
run_pass(percent) ==
    /\ LET now == Min(autoload.elapsed + 1, deadzone_time + 1)
       IN  autoload' =
              IF percent = 0
              THEN IF autoload.at_zero_type # "ambient"
                   THEN [autoload EXCEPT !.at_zero_type = "ambient", !.elapsed = 0,
                                         !.visit_loads = 0]
                   ELSE IF now > deadzone_time /\ ~autoload.ambient_at_zero
                        THEN [autoload EXCEPT !.elapsed = now,
                                              !.play_counts["ambient"] = @ + 1,
                                              !.visit_loads = @ + 1,
                                              !.ambient_at_zero = TRUE]
                        ELSE [autoload EXCEPT !.elapsed = now]
              ELSE IF percent = 100
              THEN IF autoload.at_zero_type # "rhythm"
                   THEN [autoload EXCEPT !.at_zero_type = "rhythm", !.elapsed = 0,
                                         !.visit_loads = 0]
                   ELSE IF now > deadzone_time /\ ~autoload.rhythm_at_zero
                        THEN [autoload EXCEPT !.elapsed = now,
                                              !.play_counts["rhythm"] = @ + 1,
                                              !.visit_loads = @ + 1,
                                              !.rhythm_at_zero = TRUE]
                        ELSE [autoload EXCEPT !.elapsed = now]
              ELSE [autoload EXCEPT !.at_zero_type = "", !.elapsed = 0,
                                    !.visit_loads = 0,
                                    !.ambient_at_zero = FALSE,
                                    !.rhythm_at_zero = FALSE]
    /\ printed' = << >>
    /\ NoBlock
    /\ last_call' = "FixedAutoLoadController.run"
    /\ UNCHANGED <<load, tester, crossfade_engine, controller, render, slot_vars, volume,
                   crossfader, fx_vars, is_playing, stream, cb>>

\* Crossfader positions the control surface sends (out-of-range ones included):
\* -0.5, 0, 0.005, 0.995, 1 and 1.5.
CrossfaderInputs == {0 - FaderOne \div 2, 0, 5, FaderOne - 5, FaderOne,
                     FaderOne + FaderOne \div 2}

\* Files offered to each slot in Spec.
SlotFiles(s) == IF s = "ambient" THEN {PadFile, DroneFile, EmptyFile} ELSE {PadFile, DroneFile}

\* Block sizes the device asks for in Spec.
SpecFrames == {1}

\* The engine under control updates, loads and uninterrupted callbacks.
Next ==
    \/ \E amount \in CrossfaderInputs : set_crossfader(amount)
    \/ \E s \in Slots : \E f \in SlotFiles(s) : load_initial(s, f)
    \/ \E s \in Slots : \E f \in SlotFiles(s) : preload_next(s, f)
    \/ start_playback("ok")
    \/ stop_playback
    \/ \E frames \in SpecFrames : audio_callback(frames, FALSE, <<"same", "same">>)

Spec == Init /\ [][Next]_vars

\* Inputs of SpecMix: one file per slot, three crossfader positions, two knob
\* positions, every block size up to MaxFrames and every effect behaviour.
MixFiles(s) == IF s = "ambient" THEN {PadFile} ELSE {DroneFile}

MixCrossfaderInputs == {0, FaderOne \div 2, FaderOne}

KnobInputs == {0, FaderOne \div 2}

\* The engine as the mixer sees it: loaded once, then knobs and callbacks.
NextMix ==
    \/ \E s \in Slots : \E f \in MixFiles(s) : load_initial(s, f)
    \/ \E amount \in MixCrossfaderInputs : set_crossfader(amount)
    \/ \E amount \in KnobInputs : set_delay_amount(amount)
    \/ \E amount \in KnobInputs : set_reverb_amount(amount)
    \/ start_playback("ok")
    \/ \E frames \in 1..MaxFrames, status \in BOOLEAN, fx \in FxOutcomes \X FxOutcomes :
          audio_callback(frames, status, fx)

SpecMix == Init /\ [][NextMix]_vars

\* The audio device keeps asking for blocks while the stream runs.
SpecLive ==
    Spec /\ WF_vars(\E frames \in SpecFrames : audio_callback(frames, FALSE, <<"same", "same">>))

\* Inputs of SpecRace: one ambient track playing, one to preload, the crossfader
\* at either end, blocks of one frame.
RaceCrossfaderInputs == {0, FaderOne}

\* The control thread running whole handlers between the statements of a
\* callback on the audio thread.
NextRace ==
    \/ cb.pc = "idle" /\ ~is_playing /\ load_initial("ambient", PadFile)
    \/ cb.pc = "idle" /\ start_playback("ok")
    \/ preload_next("ambient", DroneFile)
    \/ \E amount \in RaceCrossfaderInputs : set_crossfader(amount)
    \/ cb_enter(1, <<"same", "same">>)
    \/ cb_guard
    \/ cb_read_buffer
    \/ cb_read_position
    \/ cb_advance_read
    \/ cb_advance_store
    \/ cb_mix
    \/ cb_finish

SpecRace == Init /\ [][NextRace]_vars

\* Inputs of SpecKnobs: amounts below, inside and above the range, on both
\* sides of the delay bands.
KnobCrossfaderInputs == {0 - FaderOne \div 2, FaderOne \div 2, FaderOne + FaderOne \div 2}

DelayInputs ==
    {0 - FaderOne \div 2, 0, (3 * FaderOne) \div 10, (3 * FaderOne) \div 10 + 1,
     (7 * FaderOne) \div 10, FaderOne + FaderOne \div 2}

ReverbInputs == {0 - FaderOne \div 2, FaderOne \div 2, FaderOne + FaderOne \div 2}

VolumeInputs == {0 - FaderOne \div 2, FaderOne \div 2}

\* The control surface: setter calls with any argument and key presses.
NextKnobs ==
    \/ \E amount \in KnobCrossfaderInputs : set_crossfader(amount)
    \/ \E amount \in DelayInputs : set_delay_amount(amount)
    \/ \E amount \in ReverbInputs : set_reverb_amount(amount)
    \/ \E a \in VolumeInputs, r \in VolumeInputs : set_volumes(a, r)
    \/ \E key \in Keys : handle_key(key)

SpecKnobs == Init /\ [][NextKnobs]_vars

\* Inputs of SpecTwice: each setter at a few amounts, one per delay band.
TwiceCrossfaderInputs == {0, FaderOne \div 2, FaderOne}

TwiceDelayInputs == {0, FaderOne \div 5, FaderOne \div 2, FaderOne}

TwiceReverbInputs == {0, FaderOne \div 2}

\* Setter calls in any order around a rhythm track that is loaded, replaced
\* and has a next track pending.
NextTwice ==
    \/ \E amount \in TwiceCrossfaderInputs : set_crossfader(amount)
    \/ \E amount \in TwiceDelayInputs : set_delay_amount(amount)
    \/ \E amount \in TwiceReverbInputs : set_reverb_amount(amount)
    \/ load_initial("rhythm", PadFile)
    \/ \E f \in {PadFile, DroneFile} : preload_next("rhythm", f)

SpecTwice == Init /\ [][NextTwice]_vars

\* The longest source (frames), the longest target buffer (frames) and the
\* largest number of loop passes SpecRender draws.
MaxSource == 5

MaxTarget == 6

MaxLoops == 3

\* A source of n frames, no two alike.
SourceOf(n) == [i \in 1..n |-> SampleOne - 15 * (i - 1)]

\* The calls of the renderer SpecRender starts from: every source up to
\* MaxSource frames (the empty one too), every crossfade up to the longest
\* source, every target length and number of passes.
RenderArgs ==
    [pc : {"args"}, audio_data : {SourceOf(n) : n \in 0..MaxSource},
     crossfade_samples : 0..MaxSource, target : 1..MaxTarget, loops : 1..MaxLoops,
     full_buffer : {None}, buffer : {None}]

InitRender ==
    /\ EngineInit
    /\ render \in {RenderNone} \cup RenderArgs
    /\ crossfade_engine = CrossfadeAudioEngine(MaxBufferSize)
    /\ OthersInit

\* The renderer called on its own, and an engine that loads, promotes and
\* plays ambient tracks.
NextRender ==
    \/ render_loops
    \/ pre_render
    \/ render.pc = "none" /\ \E f \in SlotFiles("ambient") : load_initial("ambient", f)
    \/ render.pc = "none" /\ \E f \in SlotFiles("ambient") : preload_next("ambient", f)
    \/ render.pc = "none" /\ \E amount \in RaceCrossfaderInputs : set_crossfader(amount)
    \/ render.pc = "none" /\ start_playback("ok")
    \/ render.pc = "none" /\ audio_callback(1, FALSE, <<"same", "same">>)

SpecRender == InitRender /\ [][NextRender]_vars

\* Preloads that follow one another: a drone is requested only over a pending
\* pad, a file without frames only over a pending request, and the crossfader
\* moves between its two ends.
NextPreload ==
    \/ \E s \in Slots : preload_next(s, PadFile)
    \/ \E s \in Slots : next_file[s] = Some(PadFile) /\ preload_next(s, DroneFile)
    \/ \E s \in Slots : next_file[s] # None /\ preload_next(s, EmptyFile)
    \/ \E amount \in RaceCrossfaderInputs : set_crossfader(amount)
    \/ start_playback("ok")
    \/ audio_callback(1, FALSE, <<"same", "same">>)

SpecPreload == Init /\ [][NextPreload]_vars

\* A CrossfadeAudioEngine of any block size up to MaxBufferSize: files are
\* loaded into its two tracks, the volumes are set, and the stream it opens
\* calls back for as long as no cursor has run further than two blocks past
\* the longest block.
InitCrossfade ==
    /\ EngineInit
    /\ render = RenderNone
    /\ crossfade_engine \in {CrossfadeAudioEngine(b) : b \in 1..MaxBufferSize}
    /\ OthersInit

CrossfadeFiles(s) == IF s = "ambient" THEN {PadFile, MissingFile} ELSE {DroneFile}

NextCrossfade ==
    \/ \E s \in Slots : \E f \in CrossfadeFiles(s) : \E c \in CrossfadeConfigs :
          crossfade_load_audio_file(f[3], s, c)
    \/ \E v \in {0, GainOne + GainOne} : crossfade_set_volumes(v, GainOne - v)
    \/ \E outcome \in {"ok", "create_fails", "start_fails"} : crossfade_play(outcome)
    \/ crossfade_stop
    \/ /\ \A s \in Slots : crossfade_engine.position[s] <= 2 * MaxBufferSize
       /\ \E status \in BOOLEAN : crossfade_audio_callback(status)

SpecCrossfade == InitCrossfade /\ [][NextCrossfade]_vars

\* The main loop on the main thread and the crossfader keys on the input
\* thread, a key at any point between two statements of the loop.
NextController ==
    \/ main_enter
    \/ main_if
    \/ main_elif
    \/ \E found \in BOOLEAN : main_reload(found)
    \/ main_update
    \/ main_sleep
    \/ \E key \in {"q", "a"} : handle_key(key)

SpecController == Init /\ [][NextController]_vars

\* Preloads on one thread, statement by statement, and crossfader updates
\* with their promotions on another.
NextInterleave ==
    \/ \E s \in Slots : \E f \in {PadFile, DroneFile, EmptyFile} :
          preload_read_and_render(s, f)
    \/ preload_assign_buffer
    \/ preload_assign_file
    \/ \E amount \in RaceCrossfaderInputs : set_crossfader(amount)

SpecInterleave == Init /\ [][NextInterleave]_vars

\* The files the tester loads: two or three frames, with a saved crossfade of
\* 0 or 500 ms or without a config file.
TesterFiles == {SourceOf(2), SourceOf(3)}

TesterConfigs == {None, Some(0), Some(500)}

\* The tester played once: a file is loaded or the position reset while no
\* play-once is under way, 'l' is pressed at any time, and the stream calls the
\* callback for blocks of one or two frames.
NextPlayOnce ==
    \/ /\ ~tester.play_once_mode
       /\ \E audio_data \in TesterFiles : \E config \in TesterConfigs :
             tester_load_file(audio_data, config)
    \/ ~tester.play_once_mode /\ tester_handle_key("r")
    \/ tester_handle_key("l")
    \/ \E frames \in 1..2 : tester_audio_callback(frames, 0)

\* The running stream keeps invoking the callback.
SpecPlayOnce ==
    /\ Init
    /\ [][NextPlayOnce]_vars
    /\ WF_vars(\E frames \in 1..2 : tester_audio_callback(frames, 0))

\* The tester with every playback key, the arrow keys re-rendering in steps,
\* and the callback running between any two of them; run() handles keys and
\* opens the stream once a first file has been selected. loops_completed and
\* a buffer_position that has run past the buffer are capped.
NextTester ==
    \/ \E audio_data \in TesterFiles : \E config \in TesterConfigs :
          tester_load_file(audio_data, config)
    \/ /\ tester.audio_data # None
       /\ \E key \in {"p", "l", "c", "r", " "} : tester_handle_key(key)
    \/ /\ tester.audio_data # None
       /\ \E delta_ms \in {100, -100} : adjust_crossfade(delta_ms)
    \/ adjust_render_step
    \/ adjust_reset_position
    \/ /\ tester.audio_data # None
       /\ tester.loops_completed <= 2 * buffer_loops
       /\ tester.buffer_position <= 4 * buffer_loops
       /\ \E frames \in 1..2 : \E stale \in {0, SampleOne} :
             tester_audio_callback(frames, stale)

SpecTester == Init /\ [][NextTester]_vars

\* Both engines started and stopped, every start with every outcome of the
\* stream's creation and start, around the loading of the ambient tracks.
NextPlayback ==
    \/ \E outcome \in {"ok", "create_fails", "start_fails"} : start_playback(outcome)
    \/ stop_playback
    \/ \E outcome \in {"ok", "create_fails", "start_fails"} : crossfade_play(outcome)
    \/ crossfade_stop
    \/ \E f \in SlotFiles("ambient") : load_initial("ambient", f)

SpecPlayback == Init /\ [][NextPlayback]_vars

\* The fixed auto-load controller polling a crossfader that is at either
\* extreme or in between, until a slot has been loaded MaxPlayCount times.
NextAutoLoad ==
    /\ \A s \in Slots : autoload.play_counts[s] < MaxPlayCount
    /\ \E percent \in {0, 50, 100} : run_pass(percent)

SpecAutoLoad == Init /\ [][NextAutoLoad]_vars

\* One statement of main() on the main thread, from the loop's entry to the
\* clean-up after it.
main_step ==
    \/ main_enter
    \/ main_if
    \/ main_elif
    \/ \E found \in BOOLEAN : main_reload(found)
    \/ main_update
    \/ main_sleep
    \/ main_cleanup

\* main() from engine.start_playback() on, with the input thread handling the
\* crossfader keys and ESC; the main thread keeps running.
NextShutdown ==
    \/ /\ controller.pc = "off"
       /\ \E outcome \in {"ok", "create_fails"} : start_playback(outcome)
    \/ main_step
    \/ \E key \in {"q", "a", "esc"} : handle_key(key)

SpecShutdown == Init /\ [][NextShutdown]_vars /\ WF_vars(main_step)

\* ------------------------------------------------------------------ claims

\* The silence threshold of promote_if_silent in the specification, 1e-3.
SilenceThreshold == GainOne \div 1000

\* C1 as stated: a set_crossfader that leaves a slot's gain at or below the
\* silence threshold while a next buffer is pending makes the pending buffer the
\* current one, with cursor 0, and clears the pending buffer.
C1_PromotesAtThreshold ==
    [][last_call' = "set_crossfader" =>
         \A s \in Slots :
            (volume'[s] <= SilenceThreshold /\ next_buffer[s] # None) =>
               /\ current_buffer'[s] = next_buffer[s]
               /\ current_buffer_position'[s] = 0
               /\ next_buffer'[s] = None]_vars

\* C1 amended: a set_crossfader that leaves a slot's gain at exactly 0 while a
\* next buffer is pending makes the pending buffer the current one, with cursor
\* 0, and clears the pending buffer.
C1_PromotesAtZero ==
    [][last_call' = "set_crossfader" =>
         \A s \in Slots :
            (volume'[s] = 0 /\ next_buffer[s] # None) =>
               /\ current_buffer'[s] = next_buffer[s]
               /\ current_buffer_position'[s] = 0
               /\ next_buffer'[s] = None]_vars

\* A set_crossfader has just promoted a slot while the engine was playing.
C1_Witness ==
    /\ last_call = "set_crossfader"
    /\ is_playing
    /\ \E s \in Slots :
          /\ printed = << <<"switching", s>> >>
          /\ volume[s] = 0
          /\ current_buffer[s] # None
          /\ current_buffer_position[s] = 0
          /\ next_buffer[s] = None

\* C2: while the engine is playing, the current buffer of a slot that has one
\* changes only by promotion of its pending buffer, and only with the slot's
\* gain at or below the silence threshold.
C2_ReplacedOnlyBySilentPromotion ==
    [][\A s \in Slots :
          (is_playing /\ current_buffer[s] # None
             /\ current_buffer'[s] # current_buffer[s]) =>
             /\ next_buffer[s] # None
             /\ current_buffer'[s] = next_buffer[s]
             /\ volume'[s] <= SilenceThreshold]_vars

\* C3: while the engine is playing, a slot that is silent with a pending buffer
\* gets the pending buffer promoted (the pending buffer does not stay pending
\* for ever while the device keeps asking for blocks).
C3_PendingEventuallyPromoted ==
    \A s \in Slots :
       (is_playing /\ volume[s] <= SilenceThreshold /\ next_buffer[s] # None)
          ~> (next_buffer[s] = None \/ ~is_playing)

\* C5: a promotion check (the one set_crossfader ends with) made with the
\* slot's gain above the threshold, or with no pending buffer, leaves the slot's
\* current buffer, cursor and pending buffer as they were; a check that
\* promotes leaves no pending buffer behind.
C5_PromotionIdempotent ==
    [][last_call' = "set_crossfader" =>
         \A s \in Slots :
            /\ (volume'[s] > SilenceThreshold \/ next_buffer[s] = None) =>
                  /\ current_buffer'[s] = current_buffer[s]
                  /\ current_buffer_position'[s] = current_buffer_position[s]
                  /\ next_buffer'[s] = next_buffer[s]
            /\ (current_buffer'[s] # current_buffer[s]) => next_buffer'[s] = None]_vars

\* A promotion check has just run above the threshold with a buffer pending,
\* on a slot whose cursor was under way.
C5_Witness ==
    /\ last_call = "set_crossfader"
    /\ \E s \in Slots :
          /\ volume[s] > SilenceThreshold
          /\ next_buffer[s] # None
          /\ current_buffer[s] # None
          /\ current_buffer[s] # next_buffer[s]
          /\ current_buffer_position[s] > 0

\* C6: a preload, successful or not, leaves the current buffer, its cursor, the
\* current file and the gains as they were, and for a slot that has a current
\* file also the crossfade_ms the display shows for the playing track.
C6_PreloadLeavesCurrentTrack ==
    [][last_call' = "preload_next" =>
         /\ current_buffer' = current_buffer
         /\ current_buffer_position' = current_buffer_position
         /\ current_file' = current_file
         /\ volume' = volume
         /\ \A s \in Slots :
               current_file[s] # None => crossfade_ms'[s] = crossfade_ms[s]]_vars

\* C4: a promotion is atomic for a callback in progress: when the callback
\* stores the advanced cursor of a slot, the slot still holds the buffer the
\* callback took its chunk from and the cursor still has the value the callback
\* read, so the store never moves the cursor of a newly promoted buffer away
\* from the 0 the promotion set.
C4_PromotionAtomicForCallback ==
    [][(cb.pc = "advance_store" /\ cb'.pc = "mix") =>
           /\ cb.buffer = current_buffer[cb.slot]
           /\ cb.position2 = current_buffer_position[cb.slot]]_vars

\* Frame i (from 0) of a read of frames that wraps around the buffer of slot s
\* as often as needed, starting at the slot's cursor.
WrappedFrame(s, i) ==
    current_buffer[s][1][((current_buffer_position[s] + i) % Len(current_buffer[s][1])) + 1]

\* The chunk the callback gets for slot s when it asks for frames frames.
ChunkOf(s, frames) ==
    get_audio_chunk(current_buffer[s][1], current_buffer_position[s], frames)

\* The callback gets to read slot s: the slot has a buffer and is audible, and
\* for the rhythm slot the ambient slot's mix has not raised before.
CallbackReads(s, frames) ==
    /\ current_buffer[s] # None /\ volume[s] > 0
    /\ s = "rhythm" /\ current_buffer["ambient"] # None /\ volume["ambient"] > 0
         => Len(ChunkOf("ambient", frames)) \in {frames, 1}

\* C7: the chunk the callback reads from a slot has exactly f frames, frame i
\* being buffer[(p + i) mod L], for every block size f (also f > L - p and
\* f > L), and afterwards the slot's cursor is (p + f) mod L, within 0..L-1.
C7_ChunkWrapsAtAnySize ==
    [][last_call' = "audio_callback" =>
         \A s \in Slots :
            CallbackReads(s, asked_frames') =>
               /\ Len(ChunkOf(s, asked_frames')) = asked_frames'
               /\ \A i \in 0..(asked_frames' - 1) :
                     ChunkOf(s, asked_frames')[i + 1] = WrappedFrame(s, i)
               /\ current_buffer_position'[s] =
                     (current_buffer_position[s] + asked_frames')
                        % Len(current_buffer[s][1])
               /\ current_buffer_position'[s] \in 0..(Len(current_buffer[s][1]) - 1)]_vars

C9_OutputWithinUnitRange ==
    \A i \in 1..Len(outdata) : 0 - OutOne <= outdata[i] /\ outdata[i] <= OutOne

\* A callback has written a block with an effect on in which a sample sits at
\* -1 although no sample of the only audible track is below -0.5: the effect
\* pushed the sample out of range and the clip brought it back.
C9_Witness ==
    /\ last_call = "audio_callback" /\ ~callback_raised
    /\ delay_amount > 0 \/ reverb_amount > 0
    /\ current_file["ambient"] = Some(PadFile) /\ volume["rhythm"] = 0
    /\ \E i \in 1..Len(outdata) : outdata[i] = 0 - OutOne

\* What slot s adds to frame i (from 0) of a block: its wrapped frame times its
\* gain, and nothing when it has no buffer.
Contribution(s, i) ==
    IF current_buffer[s] = None THEN 0 ELSE WrappedFrame(s, i) * volume[s]

\* C10: when a slot has no current buffer the callback completes without error
\* and writes the other slot's contribution alone, after the effects and the
\* clip (all zeros when both slots are empty).
C10_AbsentSlotIsSilent ==
    [][last_call' = "audio_callback" =>
         \A s \in Slots :
            current_buffer[s] = None =>
               /\ ~callback_raised'
               /\ \E fx \in FxOutcomes \X FxOutcomes :
                     outdata' =
                        Finish([i \in 1..asked_frames' |->
                                   Contribution(CHOOSE o \in Slots : o # s, i - 1)],
                               fx, delay_amount, reverb_amount)]_vars

\* v is x ** 1.5 (x in thousandths, v in millionths): x times the square root
\* of x, the root rounded down to a thousandth.
IsPow15(v, x) ==
    IF x = 0 THEN v = 0
    ELSE LET r == v \div x
         IN  v = x * r /\ r * r <= x * FaderOne /\ x * FaderOne < (r + 1) * (r + 1)

\* p clamped to [0, 1].
Clamped(p) == IF p < 0 THEN 0 ELSE IF p > FaderOne THEN FaderOne ELSE p

\* C11: set_crossfader(p) stores p clamped to [0, 1] and sets the ambient gain
\* to (1 - p') ** 1.5 and the rhythm gain to p' ** 1.5 for the clamped p'; any
\* p <= 0 gives the gains exactly (1, 0), any p >= 1 exactly (0, 1); the ambient
\* gain never rises and the rhythm gain never falls when the crossfader goes up
\* (and the other way round when it goes down).
C11_CrossfaderCurve ==
    [][/\ last_call' = "set_crossfader" =>
             /\ crossfader' \in 0..FaderOne
             /\ IsPow15(volume'["ambient"], FaderOne - crossfader')
             /\ IsPow15(volume'["rhythm"], crossfader')
             /\ crossfader' >= crossfader =>
                   /\ volume'["ambient"] <= volume["ambient"]
                   /\ volume'["rhythm"] >= volume["rhythm"]
             /\ crossfader' <= crossfader =>
                   /\ volume'["ambient"] >= volume["ambient"]
                   /\ volume'["rhythm"] <= volume["rhythm"]
       /\ \A p \in KnobCrossfaderInputs :
             set_crossfader(p) =>
                /\ crossfader' = Clamped(p)
                /\ p <= 0 => volume'["ambient"] = GainOne /\ volume'["rhythm"] = 0
                /\ p >= FaderOne => volume'["ambient"] = 0 /\ volume'["rhythm"] = GainOne]_vars

\* The crossfader has been set between its ends (by a call or a key press) and
\* both slots are audible at less than full gain.
C11_Witness ==
    /\ last_call = "set_crossfader"
    /\ crossfader > 0 /\ crossfader < FaderOne
    /\ \A s \in Slots : volume[s] > 0 /\ volume[s] < GainOne

\* C12: the gains are those of the setter called last: after
\* set_volumes(a, r) the clamped explicit volumes a and r, after set_crossfader
\* the gains derived from the crossfader.
C12_LastSetterDecidesGains ==
    [][/\ \A a \in VolumeInputs, r \in VolumeInputs :
             set_volumes(a, r) =>
                /\ volume'["ambient"] = Clamped(a) * FaderOne
                /\ volume'["rhythm"] = Clamped(r) * FaderOne
       /\ last_call' = "set_crossfader" =>
             /\ IsPow15(volume'["ambient"], FaderOne - crossfader')
             /\ IsPow15(volume'["rhythm"], crossfader')]_vars

\* C13: whatever arguments the setters were called with and whatever keys were
\* pressed, crossfader, delay_amount, reverb_amount and both volumes lie in
\* [0, 1], and every setter call and key press can be made and returns.
C13_ControlsStayInRange ==
    /\ crossfader \in 0..FaderOne
    /\ delay_amount \in 0..FaderOne
    /\ reverb_amount \in 0..FaderOne
    /\ \A s \in Slots : volume[s] \in 0..GainOne
    /\ \A amount \in KnobCrossfaderInputs : ENABLED set_crossfader(amount)
    /\ \A amount \in DelayInputs : ENABLED set_delay_amount(amount)
    /\ \A amount \in ReverbInputs : ENABLED set_reverb_amount(amount)
    /\ \A key \in Keys : ENABLED handle_key(key)

\* All three controls sit at the upper end of their range, where calls above
\* the range and repeated key presses leave them.
C13_Witness ==
    /\ last_call = "set_delay_amount"
    /\ crossfader = FaderOne /\ delay_amount = FaderOne /\ reverb_amount = FaderOne
    /\ volume["ambient"] = 0 /\ volume["rhythm"] = GainOne

\* The engine state a setter may touch: gains, effect parameters, buffers,
\* cursors and track info.
engine_vars == <<slot_vars, volume, crossfader, fx_vars>>

\* C14: a setter called again with the amount it was last called with, right
\* after that call, leaves gains, effect parameters, current and pending
\* buffers and cursors as the first call left them.
C14_SettersIdempotent ==
    [][/\ \A x \in TwiceCrossfaderInputs :
             (last_call = "set_crossfader" /\ crossfader = Clamped(x) /\ set_crossfader(x))
                => UNCHANGED engine_vars
       /\ \A x \in TwiceDelayInputs :
             (last_call = "set_delay_amount" /\ delay_amount = Clamped(x)
                /\ set_delay_amount(x))
                => UNCHANGED engine_vars
       /\ \A x \in TwiceReverbInputs :
             (last_call = "set_reverb_amount" /\ reverb_amount = Clamped(x)
                /\ set_reverb_amount(x))
                => UNCHANGED engine_vars]_vars

\* set_crossfader has run and had nothing to switch although the rhythm slot
\* is silent: the pending track was promoted by an earlier call and no pending
\* buffer is left, which is the state a repeated set_crossfader(0.0) leaves.
C14_Witness ==
    /\ last_call = "set_crossfader" /\ printed = << >>
    /\ volume["rhythm"] = 0
    /\ current_file["rhythm"] = Some(DroneFile)
    /\ next_buffer["rhythm"] = None
    /\ data["rhythm"] # None

\* The delay time (ms) and feedback (thousandths) of the band amount a lies in.
BandOf(a) ==
    IF 10 * a <= 3 * FaderOne THEN <<200, 300>>
    ELSE IF 10 * a <= 7 * FaderOne THEN <<400, 500>>
    ELSE <<800, 700>>

\* C15 as stated: after set_delay_amount the delay time and feedback are those
\* of the band the clamped amount lies in, also for amount 0, and mix is the
\* amount.
C15_DelayDependsOnAmountOnly ==
    [][last_call' = "set_delay_amount" =>
         /\ <<delay'.delay_seconds, delay'.feedback>> = BandOf(delay_amount')
         /\ delay'.mix = delay_amount']_vars

\* C15 amended: after set_delay_amount with a clamped amount above 0 the delay
\* time and feedback are those of the amount's band and mix is the amount;
\* with amount 0 mix is 0 and delay time and feedback stay as they were.
C15_DelayKeepsPresetAtZero ==
    [][last_call' = "set_delay_amount" =>
         /\ delay'.mix = delay_amount'
         /\ IF delay_amount' > 0
            THEN <<delay'.delay_seconds, delay'.feedback>> = BandOf(delay_amount')
            ELSE /\ delay'.delay_seconds = delay.delay_seconds
                 /\ delay'.feedback = delay.feedback]_vars

\* The delay has been turned to 0 coming from the long preset, which is still
\* in the delay's parameters.
C15_Witness ==
    /\ last_call = "set_delay_amount"
    /\ delay_amount = 0
    /\ delay = [delay_seconds |-> 800, feedback |-> 700, mix |-> 0]

\* The gain-weighted sum of the two slots for a block of frames frames, taken
\* in the state before the callback.
WeightedSum(frames) ==
    [i \in 1..frames |-> Contribution("ambient", i - 1) + Contribution("rhythm", i - 1)]

\* A block limited to [-1, 1].
Limited(block) ==
    [i \in 1..Len(block) |->
        IF block[i] > OutOne THEN OutOne
        ELSE IF block[i] < 0 - OutOne THEN 0 - OutOne ELSE block[i]]

\* A block after one effect that returned it unchanged or amplified it.
ThroughOneEffect(block) == {block, [i \in 1..Len(block) |-> 3 * block[i]]}

C17_ReverbWetDry ==
    /\ reverb.wet_level = reverb_amount
    /\ reverb.dry_level = FaderOne - reverb_amount
    /\ reverb.wet_level + reverb.dry_level = FaderOne

\* The reverb has been set strictly between off and full.
C17_Witness ==
    /\ last_call = "set_reverb_amount"
    /\ reverb_amount > 0 /\ reverb_amount < FaderOne
    /\ reverb.wet_level > 0 /\ reverb.dry_level > 0

\* C18: for a source of N >= 1 frames and a crossfade of C frames, 0 <= C < N
\* (also C > N/2), k passes of the renderer's loop succeed and give, before
\* the trim, a buffer of exactly N + (k - 1)(N - C) frames.
C18_RenderedLength ==
    (/\ render.pc = "looped"
     /\ Len(render.audio_data) >= 1
     /\ render.crossfade_samples < Len(render.audio_data))
    => /\ render.full_buffer # None
       /\ Len(render.full_buffer[1]) =
             Len(render.audio_data)
             + (render.loops - 1) * (Len(render.audio_data) - render.crossfade_samples)

\* C19: the renderer builds ceil(target_samples / (N - C)) loops, so the buffer
\* before the trim has at least target_samples frames and the repeat branch
\* is never taken.
C19_LoopsCountOverlap ==
    (/\ render.pc = "done"
     /\ render.crossfade_samples < Len(render.audio_data))
    => /\ render.loops =
             CeilDiv(render.target, Len(render.audio_data) - render.crossfade_samples)
       /\ Len(render.full_buffer[1]) >= render.target

\* C20: every buffer a successful render returns has exactly the target number
\* of frames; in the engine every current and pending buffer has
\* target_buffer_seconds * sample_rate frames and every cursor is an index
\* into it.
C20_BuffersHaveTargetLength ==
    /\ render.pc = "done" => Len(render.buffer[1]) = render.target
    /\ \A s \in Slots :
          /\ current_buffer[s] # None =>
                /\ Len(current_buffer[s][1]) = target_buffer_seconds * sample_rate
                /\ current_buffer_position[s] \in 0..(Len(current_buffer[s][1]) - 1)
          /\ next_buffer[s] # None =>
                /\ Len(next_buffer[s][1]) = target_buffer_seconds * sample_rate
                /\ next_buffer_position[s] \in 0..(Len(next_buffer[s][1]) - 1)

\* A render whose crossfaded loops came out shorter than the target has been
\* extended to the target length.
C20_Witness ==
    /\ render.pc = "done"
    /\ render.crossfade_samples > 0
    /\ Len(render.full_buffer[1]) < render.target
    /\ Len(render.buffer[1]) = render.target

\* One frame of a crossfade window of c frames, i 0-based: the frame already
\* written weighted by w_out = 1 - w_in, plus the source frame weighted by
\* w_in = i / (c - 1) (0 for a window of one frame).
WindowFrame(tail_frame, source_frame, i, c) ==
    FadeOut(tail_frame, i, c) + FadeIn(source_frame, i, c)

\* One more repetition written over a buffer: its last c frames become the
\* crossfade window with source[:c], then source[c:] follows unmodified.
WindowedStep(written, source, c) ==
    DropLastN(written, c)
    \o [i \in 1..c |-> WindowFrame(LastN(written, c)[i], source[i], i - 1, c)]
    \o From(source, c)

\* loops repetitions of source joined by crossfade windows of c frames.
RECURSIVE WindowedLoops(_, _, _)
WindowedLoops(source, c, loops) ==
    IF loops <= 1 THEN source
    ELSE WindowedStep(WindowedLoops(source, c, loops - 1), source, c)

\* C21: when the crossfaded loops are shorter than the target, the frames
\* added to reach the target continue with the source after its crossfade
\* region (source[C:]); they are not a restart of the buffer from its first
\* frame.
C21_ExtensionContinuesLoop ==
    (/\ render.pc = "done"
     /\ render.crossfade_samples < Len(render.audio_data)
     /\ Len(render.full_buffer[1]) < render.target)
    => \A j \in 1..Min(render.target - Len(render.full_buffer[1]),
                       Len(render.audio_data) - render.crossfade_samples) :
          render.buffer[1][Len(render.full_buffer[1]) + j] =
             render.audio_data[render.crossfade_samples + j]

\* C22: a requested crossfade of at least the source length does not make the
\* render fail; the buffer is the one rendered with floor(N / 2) crossfade
\* frames.
C22_OversizedCrossfadeAdjusted ==
    (/\ render.pc \in {"done", "raised"}
     /\ Len(render.audio_data) >= 1
     /\ render.crossfade_samples >= Len(render.audio_data))
    => /\ render.pc = "done"
       /\ render.buffer =
             PreRender(render.audio_data, Len(render.audio_data) \div 2,
                       render.target).buffer

\* C23: the loops the renderer joins are the source repeated, each boundary a
\* window of C frames out[i] = tail[i] * w_out(i) + source[i] * w_in(i) over the
\* last C frames already written, with w_out + w_in = 1, and every other frame
\* an unmodified source frame.
C23_WindowIsLinearCrossfade ==
    (/\ render.pc = "looped"
     /\ Len(render.audio_data) >= 1
     /\ render.crossfade_samples <= Len(render.audio_data))
    => /\ render.full_buffer # None
       /\ render.full_buffer[1] =
             WindowedLoops(render.audio_data, render.crossfade_samples, render.loops)

\* The pairs of neighbouring frames of a seamless loop of source: neighbours in
\* the source, or neighbours in and around a crossfade window.
SeamlessPairs(source, c) ==
    LET ideal == WindowedLoops(source, c, 3)
    IN  {<<ideal[i], ideal[i + 1]>> : i \in 1..(Len(ideal) - 1)}

\* C24: looped playback of a rendered buffer has no un-crossfaded seam; the
\* wrap from the buffer's last frame to frame 0 is a step between neighbours
\* of the source or a step through a crossfade window, like every internal
\* loop boundary.
C24_WrapHasNoSeam ==
    (/\ render.pc = "done"
     /\ 2 * render.crossfade_samples <= Len(render.audio_data))
    => <<render.buffer[1][Len(render.buffer[1])], render.buffer[1][1]>>
          \in SeamlessPairs(render.audio_data, render.crossfade_samples)

\* Whether the load that has just run returned False: it printed the error
\* of its except branch.
LoadFailed(prints) == \E i \in 1..Len(prints) : prints[i][1] = "error_loading"

\* C25: a load that fails installs no buffer and leaves all engine state as it
\* was, the stored source data and the crossfade_ms of every slot included.
C25_FailedLoadChangesNothing ==
    [][(last_call' \in {"load_initial", "preload_next"} /\ LoadFailed(printed')) =>
         /\ current_buffer' = current_buffer
         /\ next_buffer' = next_buffer
         /\ current_buffer_position' = current_buffer_position
         /\ next_buffer_position' = next_buffer_position
         /\ current_file' = current_file
         /\ next_file' = next_file
         /\ data' = data
         /\ crossfade_ms' = crossfade_ms
         /\ volume' = volume
         /\ crossfader' = crossfader
         /\ is_playing' = is_playing]_vars

\* C26: a preload that succeeds replaces whatever was pending in its slot by
\* its own buffer and file info, a preload that fails leaves the pending pair
\* alone, and a promotion installs the pending buffer together with the
\* pending file info: what is promoted belongs to the most recent successful
\* preload.
C26_LaterPreloadSupersedes ==
    [][/\ \A s \in Slots : \A f \in FileInfos :
             (preload_next(s, f) /\ LoadOutcome(f) = "ok") =>
                /\ next_buffer'[s] = Some(RenderedBuffer(f))
                /\ next_file'[s] = Some(f)
       /\ \A s \in Slots : \A f \in FileInfos :
             (preload_next(s, f) /\ LoadOutcome(f) # "ok") =>
                /\ next_buffer'[s] = next_buffer[s]
                /\ next_file'[s] = next_file[s]
       /\ \A s \in Slots :
             (last_call' = "set_crossfader" /\ current_buffer'[s] # current_buffer[s]) =>
                /\ current_buffer'[s] = next_buffer[s]
                /\ current_file'[s] = next_file[s]
                /\ next_buffer'[s] = None]_vars

\* The drone, requested while the pad was pending, has been promoted.
C26_Witness ==
    \E s \in Slots :
       /\ current_file[s] = Some(DroneFile)
       /\ current_buffer[s] = Some(RenderedBuffer(DroneFile))
       /\ next_buffer[s] = None

\* C27: no error escapes the audio callback: every callback returns normally
\* and has written a block of the length the device asked for with every sample
\* in [-1, 1], also when the delay or the reverb fails.
C27_NoErrorEscapesCallback ==
    last_call = "audio_callback" =>
       /\ ~callback_raised
       /\ Len(outdata) = asked_frames
       /\ \A i \in 1..Len(outdata) : 0 - OutOne <= outdata[i] /\ outdata[i] <= OutOne

\* C28: the audio callback prints nothing: not when the device reports a
\* status flag, not when an effect fails, and not on the normal path.
C28_CallbackPrintsNothing ==
    last_call = "audio_callback" => printed = << >>

\* C29: playback never modifies loaded audio: a callback of the
\* CrossfadeAudioEngine, wrapping or not, leaves ambient_data and rhythm_data
\* sample for sample as they were.
C29_PlaybackLeavesSourceData ==
    [][last_call' = "CrossfadeAudioEngine.audio_callback" =>
          crossfade_engine'.data = crossfade_engine.data]_vars

\* C30: every movement of the crossfader from below 0.95 to 0.95 or above
\* triggers an ambient reload attempt and every movement from above 0.05 to
\* 0.05 or below a rhythm reload attempt, however the keys interleave with
\* the loop: a pass that records such a movement in prev_crossfader has made
\* the attempt.
C30_CrossingTriggersReload ==
    [][controller.pc = "update" =>
         /\ (/\ controller.prev_crossfader < FaderOne - FaderOne \div 20
             /\ controller'.prev_crossfader >= FaderOne - FaderOne \div 20)
            => controller.reloading = "ambient"
         /\ (/\ controller.prev_crossfader > FaderOne \div 20
             /\ controller'.prev_crossfader <= FaderOne \div 20)
            => controller.reloading = "rhythm"]_vars

\* C31: under any interleaving of a preload with set_crossfader and its
\* promotion, whenever no preload is under way a slot has a pending file
\* exactly when it has a pending buffer, and its current file is the file its
\* current buffer was rendered from.
C31_FilesMatchBuffers ==
    load.pc = "idle" =>
       \A s \in Slots :
          /\ (next_file[s] # None) <=> (next_buffer[s] # None)
          /\ current_buffer[s] # None =>
                /\ current_file[s] # None
                /\ current_buffer[s] = Some(RenderedBuffer(current_file[s][1]))

\* C32: whenever a slot has a current file, the slot's crossfade_ms is the
\* crossfade of that file, also while another track is pending.
C32_CrossfadeMsOfCurrentFile ==
    \A s \in Slots : current_file[s] # None => crossfade_ms[s] = current_file[s][1][2]


\* C33: for every source of N frames, crossfade of C frames with 0 <= C < N
\* and k >= 1 loops, the concatenation AudioEngine._pre_render_buffer builds
\* before trimming is frame for frame the buffer
\* PreRenderCrossfade.pre_render_buffer builds for the same N, C and k.
C33_SameRenderer ==
    (/\ render.pc = "looped"
     /\ render.crossfade_samples < Len(render.audio_data))
    => render.full_buffer = tester_pre_render_buffer(render.audio_data,
                                                     render.crossfade_samples,
                                                     render.loops)

\* The same for crossfades of at most half the source or at most two loops.
C33_SameRendererShortCrossfade ==
    (/\ render.pc = "looped"
     /\ render.crossfade_samples < Len(render.audio_data)
     /\ \/ 2 * render.crossfade_samples <= Len(render.audio_data)
        \/ render.loops <= 2)
    => render.full_buffer = tester_pre_render_buffer(render.audio_data,
                                                     render.crossfade_samples,
                                                     render.loops)


\* C34: in the pre-render tester, once the play-once key has been handled
\* with a buffer loaded, playback eventually stops by itself (is_playing is
\* False and play_once_mode cleared) as long as the callback keeps being
\* invoked, wherever buffer_position was when the key was pressed.
C34_PlayOnceStops ==
    (tester.buffer # None /\ tester.play_once_mode)
    ~> (~tester.is_playing /\ ~tester.play_once_mode)

\* C35: in the pre-render tester, whatever the interleaving of the callback
\* with adjust_crossfade, every state the callback can run in has
\* 0 <= buffer_position <= len(buffer) and a completely rendered buffer, the
\* callback's read count is never negative and the callback never fails.
C35_CallbackSeesRenderedBuffer ==
    /\ (tester.buffer # None /\ tester.is_playing /\ tester.pc # "crashed") =>
          /\ 0 <= tester.buffer_position
          /\ tester.buffer_position <= Len(tester.buffer[1])
          /\ tester.buffer = tester_pre_render_buffer(tester.audio_data[1],
                                                      tester.crossfade_samples, buffer_loops)
    /\ tester.frames_to_read >= 0
    /\ ~tester.callback_failed


\* C36: in both engines is_playing is True only while an output stream has
\* been created and started and not yet stopped; in particular a failed
\* creation or start of the stream leaves is_playing False.
C36_PlayingMeansStreamRunning ==
    /\ is_playing => stream = "running"
    /\ crossfade_engine.is_playing => crossfade_engine.stream = "running"

\* The same of AudioEngine alone.
C36_AudioEnginePlayingMeansStreamRunning == is_playing => stream = "running"


C37_AtMostOneLoadPerVisit == autoload.visit_loads <= 1


\* C38: once the input thread has handled ESC (MidiHandler.running is False)
\* the main loop exits and stop_playback is eventually called, leaving
\* is_playing False.
C38_EscShutsDown ==
    (~controller.running) ~> (controller.pc = "done" /\ ~is_playing)

\* The same for the runs in which no reload is attempted with a file found.
C38_EscShutsDownUnlessCrashed ==
    (~controller.running) ~> (controller.pc \in {"done", "crashed"} /\
                              (controller.pc = "done" => ~is_playing))

====
